---- MODULE Spec2Model ----
(***************************************************************************)
(* A model of the order-generation and reconciliation engine of kelp:      *)
(*   - filterOps (plugins/submitFilter.go): the merge of the proposed      *)
(*     operations with the live offers, run one loop iteration per step    *)
(*     (SpecFilter);                                                       *)
(*   - composeStrategy (plugins/composeStrategy.go): the combination of    *)
(*     the buy and the sell side strategy (SpecCompose);                   *)
(*   - Trader.update (trader/trader.go): the tick of the control loop,     *)
(*     one step per stage, with the venue it trades on (Spec).             *)
(* Every specification uses the variables of its own part and keeps the    *)
(* others at their idle value.                                             *)
(***************************************************************************)
EXTENDS Integers, Sequences, FiniteSets, TLC

VARIABLES
    \* ---- filterOps: its arguments
    ops,            \* ops []txnbuild.Operation
    sellingOffers,  \* sellingOffers []hProtocol.Offer, ascending by price
    buyingOffers,   \* buyingOffers []hProtocol.Offer, ascending by price
    \* ---- filterOps: its locals
    opCounter,      \* opCounter.idx
    sellCounter,    \* sellCounter.idx
    buyCounter,     \* buyCounter.idx
    filteredOps,    \* filteredOps, each element with the input it was made from
    fpc,            \* where filterOps is: "idle", "loop", "done", "error"
    \* ---- filterOps: history of the pass (not in the code)
    fnCalls,        \* what was passed to fn and what fn answered, in call order
    \* ---- the state the strategies read
    allOffers,      \* the DatumOffers of the snapshot: SellingAOffers, BuyingAOffers
    \* ---- composeStrategy
    cpc,            \* where the strategy is in its lifecycle: "off", "idle", "preUpdated"
    sideResults,    \* what buyStrat and sellStrat returned to the last call
    composeResult,  \* what the last call of composeStrategy returned
    sideCalls,      \* the sides the last call invoked, in call order (not in the code)
    \* ---- Trader and the venue it trades on
    tpc,            \* where the control loop is: "off", "Idle", ..., "Sleeping", "Panicked"
    History,        \* t.state.History, newest first
    Transient,      \* t.state.Transient: SellingAOffers, BuyingAOffers
    currentLevels,  \* s.currentLevels of the buy and of the sell side strategy
    pendingOps,     \* pruneOps, then ops: made and not yet submitted
    resting,        \* the offers of the bot that rest on the venue
    nextID,         \* the ID the venue gives to the next new offer
    \* ---- Trader: history of the tick (not in the code)
    tick,           \* the number of ticks started
    stages,         \* the stages the tick has run, in order
    failedStage,    \* the stage of the tick that returned an error, or "none"
    deleteAllCalls, \* how often the tick has called deleteAllOffers
    deleteSubmit,   \* how its submission went: "none", "ok", "failed"
    startResting,   \* the IDs of the offers that rested when the tick started
    \* ---- one sellSideStrategy run on its own
    spc,            \* where it is: "off", "idle", "preUpdated", "pruned", "updated", "failed"
    strat,          \* the sellSideStrategy: side, tolerances, currentLevels, maxAssetBase
    sideOffers,     \* the live offers of its side in the state, ascending by price
    sidePruned,     \* what PruneExistingOffers returned: pruneOps, offers
    sideGiven,      \* the offers UpdateWithOps worked on
    sideUpdated,    \* what UpdateWithOps returned: ops, top, err
    sideLevelOps,   \* what updateSellLevel returned for each level (not in the code)
    sideTick,       \* the tick the strategy is in: 1 or 2 (not in the code)
    sidePre,        \* <<>>, or what the last PreUpdate found and did (not in the code)
    \* ---- sellTwapLevelProvider
    twpc,           \* "off", "new", "rejected", "constructed"
    twapConfig,     \* the arguments of makeSellTwapLevelProvider
    activeBucket,   \* p.activeBucket: <<>> for nil, <<bucket>> otherwise
    previousRoundID,\* p.previousRoundID: <<>> for nil, <<id>> otherwise
    now,            \* time.Now(): the day and the seconds elapsed in it
    soldToday,      \* dailyValuesByDate(today).baseVol in the trades database
    resting1,       \* the amount of the returned level that is not sold yet
    rounds,         \* the roundInfo of every successful GetLevels (not in the code)
    twapCalls,      \* the number of GetLevels calls made (not in the code)
    twapErr,        \* the error the last GetLevels returned, or "none"
    \* ---- bucketInfo.UUID on two buckets
    bucketPair,     \* the two buckets
    uuidPair,       \* <<>>, or the UUID of each
    \* ---- deleteAllOffersAndExit, the thread tracker and the process
    xpc,            \* "off", "running", "stopped", "waited", "loaded", "exited"
    stopMode,       \* whether threadTracker.Stop has been called
    activeThreads,  \* threadTracker.NumActiveThreads()
    exitReason,      \* what logger.Fatal was called with, or "none"
    \* ---- MakeDataDependenciesDag
    InitializedData,\* the DirectDependencies() of the datum of each key
    dagInput,       \* input []api.DataKey
    dagOutput,       \* <<>>, or the list MakeDataDependenciesDag returned
    \* ---- staticSpreadLevelProvider
    sspc,           \* "off", "made": GetLevels not called yet, "returned"
    ssProvider,     \* the fields of the staticSpreadLevelProvider
    ssReturned,      \* what the last GetLevels was answered and what it returned
    \* ---- backtest
    bpc,            \* "off", "made", "panicked"
    btArgs,         \* the arguments makeBacktestSimple was called with
    balances,       \* backtest.balances
    nextTransactionID, \* backtest.nextTransactionID
    btAdds,         \* how often AddOrder was called
    btReturned      \* what the last call of the backtest returned

filterVars == <<ops, sellingOffers, buyingOffers, opCounter, sellCounter,
                buyCounter, filteredOps, fpc, fnCalls>>

composeVars == <<cpc, sideResults, composeResult, sideCalls>>

traderVars == <<tpc, History, Transient, currentLevels, pendingOps, resting,
                nextID, tick, stages, failedStage, deleteAllCalls, deleteSubmit,
                startResting>>

sideVars == <<spc, strat, sideOffers, sidePruned, sideGiven, sideUpdated,
              sideLevelOps, sideTick, sidePre>>

twapVars == <<twpc, twapConfig, activeBucket, previousRoundID, now, soldToday,
              resting1, rounds, twapCalls,
                   twapErr>>

uuidVars == <<bucketPair, uuidPair>>

exitVars == <<xpc, stopMode, activeThreads, exitReason>>

dagVars == <<InitializedData, dagInput, dagOutput>>

staticVars == <<sspc, ssProvider, ssReturned>>

backtestVars == <<bpc, btArgs, balances, nextTransactionID, btAdds, btReturned>>

vars == <<filterVars, allOffers, composeVars, traderVars, sideVars, twapVars,
          uuidVars, exitVars, dagVars, staticVars, backtestVars>>

-----------------------------------------------------------------------------
(* Bounds of the model *)

\* the longest operation list handed to filterOps
MaxOps == 2
\* the largest number of live offers on one side
MaxOffers == 2
\* prices are 1..MaxPrice
MaxPrice == 2

Prices == 1..MaxPrice

-----------------------------------------------------------------------------
(* Operations and offers *)

\* the amount of an operation or an offer before any filter touched it
FullAmount == 2
\* the amount a filter reduces an operation to
CappedAmount == 1
\* Amount == "0": the operation deletes its offer
DeleteAmount == 0

Sides == {"sell", "buy"}

\* a Price that strconv.ParseFloat rejects
BadPrice == 0

\* a *txnbuild.ManageSellOffer that is nil
NilOp == [kind |-> "nil"]

\* a *txnbuild.ManageSellOffer; side stands for the pair (Selling, Buying)
ManageSellOffer(side, offerID, price, amount) ==
    [kind |-> "mso", side |-> side, offerID |-> offerID, price |-> price,
     amount |-> amount]

\* any other txnbuild.Operation
OtherOp == [kind |-> "other"]

\* a hProtocol.Offer
Offer(side, id, price, amount) ==
    [side |-> side, id |-> id, price |-> price, amount |-> amount]

convertOffer2MSO(offer) ==
    ManageSellOffer(offer.side, offer.id, offer.price, offer.amount)

\* the offer IDs of one side; live offers carry them in list order
OfferIDs(side) ==
    IF side = "sell" THEN 1..MaxOffers ELSE (MaxOffers + 1)..(2 * MaxOffers)

-----------------------------------------------------------------------------
(* The parts a specification does not run *)

\* a *model.Number that is nil
NilNumber == [nil |-> TRUE]

\* a *model.Number: the fraction n/d
Number(n, d) == [n |-> n, d |-> d]

\* a DatumOffers without offers
NoOffers == [SellingAOffers |-> <<>>, BuyingAOffers |-> <<>>]

\* a side strategy that has returned nothing yet
NoSideResult == [ops |-> <<>>, top |-> NilNumber, err |-> FALSE]

\* no filterOps is running
FilterOff ==
    /\ ops = <<>>
    /\ sellingOffers = <<>>
    /\ buyingOffers = <<>>
    /\ opCounter = 0
    /\ sellCounter = 0
    /\ buyCounter = 0
    /\ filteredOps = <<>>
    /\ fnCalls = <<>>
    /\ fpc = "idle"

\* composeStrategy before its first call, with the given lifecycle position
ComposeAt(pos) ==
    /\ cpc = pos
    /\ sideResults = [buy |-> NoSideResult, sell |-> NoSideResult]
    /\ composeResult = [method |-> "none", ops |-> <<>>, err |-> "none"]
    /\ sideCalls = <<>>

\* no composeStrategy is run on its own
ComposeOff == ComposeAt("off")

\* a tick that has not run anything yet
NewTick ==
    /\ stages = <<>>
    /\ failedStage = "none"
    /\ deleteAllCalls = 0
    /\ deleteSubmit = "none"

\* no Trader is running
TraderOff ==
    /\ tpc = "off"
    /\ History = <<>>
    /\ Transient = NoOffers
    /\ currentLevels = [buy |-> <<>>, sell |-> <<>>]
    /\ pendingOps = <<>>
    /\ resting = {}
    /\ nextID = 1
    /\ tick = 0
    /\ startResting = {}
    /\ NewTick


\* a sellSideStrategy before PreUpdate has stored anything
NewStrat(side, priceTolerance, amountTolerance) ==
    [side |-> side, priceTolerance |-> priceTolerance,
     amountTolerance |-> amountTolerance, currentLevels |-> <<>>,
     maxAssetBase |-> 0]

\* where a sellSideStrategy on its own is, and nothing returned yet
SideAt(pos) ==
    /\ spc = pos
    /\ sidePruned = [pruneOps |-> <<>>, offers |-> <<>>]
    /\ sideGiven = <<>>
    /\ sideUpdated = NoSideResult
    /\ sideLevelOps = <<>>
    /\ sideTick = 1
    /\ sidePre = <<>>

\* no sellSideStrategy runs on its own
SideOff ==
    /\ SideAt("off")
    /\ strat = NewStrat("sell", Number(0, 1), Number(0, 1))
    /\ sideOffers = <<>>

\* the arguments of makeSellTwapLevelProvider; sellsBase: every filter of
\* dowFilter is selling the base asset
TwapConfig(hours, size, ceiling, smoothing, minChild, sellsBase) ==
    [numHoursToSell |-> hours, parentBucketSizeSeconds |-> size,
     distributeSurplusOverRemainingIntervalsPercentCeiling |-> ceiling,
     exponentialSmoothingFactor |-> smoothing,
     minChildOrderSizePercentOfParent |-> minChild,
     sellsBase |-> sellsBase]

\* where a sellTwapLevelProvider is, before its first GetLevels
TwapAt(pos) ==
    /\ twpc = pos
    /\ activeBucket = <<>>
    /\ previousRoundID = <<>>
    /\ now = [day |-> 0, sec |-> 0]
    /\ soldToday = 0
    /\ resting1 = 0
    /\ rounds = <<>>
    /\ twapCalls = 0
    /\ twapErr = "none"

\* no sellTwapLevelProvider is made
TwapOff ==
    /\ TwapAt("off")
    /\ twapConfig = TwapConfig(1, 1, Number(0, 1), Number(0, 1), Number(0, 1), TRUE)

\* no UUID is computed
UuidOff ==
    /\ bucketPair = <<>>
    /\ uuidPair = <<>>

\* deleteAllOffersAndExit has not been called and no process is modelled
ExitOff ==
    /\ xpc = "off"
    /\ stopMode = FALSE
    /\ activeThreads = 0
    /\ exitReason = "none"

\* MakeDataDependenciesDag is not called
DagOff ==
    /\ InitializedData = <<>>
    /\ dagInput = <<>>
    /\ dagOutput = <<>>

\* no staticSpreadLevelProvider is made
StaticOff ==
    /\ sspc = "off"
    /\ ssProvider = <<>>
    /\ ssReturned = <<>>

\* no backtest is made
BacktestOff ==
    /\ bpc = "off"
    /\ btArgs = <<>>
    /\ balances = <<>>
    /\ nextTransactionID = 0
    /\ btAdds = 0
    /\ btReturned = <<>>

-----------------------------------------------------------------------------
(* filterOps *)

ignoreOfferIDs(operations) ==
    {operations[i].offerID : i \in {j \in DOMAIN operations : operations[j].kind = "mso"}}

\* utils.IsSelling on the operation's assets
selectBuySellList(mso, selling, buying, sellIdx, buyIdx) ==
    IF mso.side \notin Sides
    THEN \* could not check whether the ManageSellOffer was selling or buying
         [offerList |-> <<>>, idx |-> 0, counter |-> "none", err |-> TRUE]
    ELSE IF mso.side = "sell"
    THEN [offerList |-> selling, idx |-> sellIdx, counter |-> "sell", err |-> FALSE]
    ELSE [offerList |-> buying, idx |-> buyIdx, counter |-> "buy", err |-> FALSE]

\* a selectOpOrOffer that takes the operation when the prices are the same
selectOpOrOfferOpAtSamePrice(offerList, offerIdx, mso, ignoreOfferIds) ==
    IF offerIdx >= Len(offerList)
    THEN [opToTransform |-> mso, originalOffer |-> NilOp, c |-> "op",
          isIgnoredOffer |-> FALSE, err |-> FALSE]
    ELSE LET existingOffer == offerList[offerIdx + 1] IN
         IF existingOffer.id \in ignoreOfferIds
         THEN [opToTransform |-> NilOp, originalOffer |-> NilOp, c |-> "offer",
               isIgnoredOffer |-> TRUE, err |-> FALSE]
         ELSE IF mso.price = BadPrice
         THEN [opToTransform |-> NilOp, originalOffer |-> NilOp, c |-> "none",
               isIgnoredOffer |-> FALSE, err |-> TRUE]
         ELSE IF mso.price <= existingOffer.price
         THEN [opToTransform |-> mso, originalOffer |-> NilOp, c |-> "op",
               isIgnoredOffer |-> FALSE, err |-> FALSE]
         ELSE [opToTransform |-> convertOffer2MSO(existingOffer),
               originalOffer |-> convertOffer2MSO(existingOffer), c |-> "offer",
               isIgnoredOffer |-> FALSE, err |-> FALSE]

\* a selectOpOrOffer that moves past the operation when it meets a live offer
\* that an operation refers to
selectOpOrOfferSkippingOp(offerList, offerIdx, mso, ignoreOfferIds) ==
    IF offerIdx < Len(offerList) /\ offerList[offerIdx + 1].id \in ignoreOfferIds
    THEN [opToTransform |-> NilOp, originalOffer |-> NilOp, c |-> "op",
          isIgnoredOffer |-> TRUE, err |-> FALSE]
    ELSE selectOpOrOfferOpAtSamePrice(offerList, offerIdx, mso, ignoreOfferIds)

\* which of the operation and the next offer of its side is looked at now
selectOpOrOffer(offerList, offerIdx, mso, ignoreOfferIds) ==
    IF offerIdx >= Len(offerList)
    THEN [opToTransform |-> mso, originalOffer |-> NilOp, c |-> "op",
          isIgnoredOffer |-> FALSE, err |-> FALSE]
    ELSE LET existingOffer == offerList[offerIdx + 1] IN
         IF existingOffer.id \in ignoreOfferIds
         THEN [opToTransform |-> NilOp, originalOffer |-> NilOp, c |-> "offer",
               isIgnoredOffer |-> TRUE, err |-> FALSE]
         ELSE IF mso.price = BadPrice
         THEN \* could not parse price as float64
              [opToTransform |-> NilOp, originalOffer |-> NilOp, c |-> "none",
               isIgnoredOffer |-> FALSE, err |-> TRUE]
         ELSE IF mso.price < existingOffer.price
         THEN [opToTransform |-> mso, originalOffer |-> NilOp, c |-> "op",
               isIgnoredOffer |-> FALSE, err |-> FALSE]
         ELSE [opToTransform |-> convertOffer2MSO(existingOffer),
               originalOffer |-> convertOffer2MSO(existingOffer), c |-> "offer",
               isIgnoredOffer |-> FALSE, err |-> FALSE]

\* the answers a filterFn gives
FnAnswers == {"keep", "change", "drop", "error", "keepNil"}

\* fn(op): (newOp, keep, error), for the answer the filter gives on this call:
\* keep the operation as it is, keep it with a reduced amount, drop it (an
\* operation on an existing offer becomes the deletion of the offer, a new
\* offer becomes nil), fail, or say keep and hand back nil
ApplyFn(answer, op) ==
    CASE answer = "keep" ->
           [newOp |-> op, keep |-> TRUE, err |-> FALSE]
      [] answer = "change" ->
           [newOp |-> [op EXCEPT !.amount = CappedAmount], keep |-> TRUE, err |-> FALSE]
      [] answer = "drop" ->
           [newOp |-> IF op.offerID = 0 THEN NilOp
                      ELSE [op EXCEPT !.amount = DeleteAmount],
            keep |-> FALSE, err |-> FALSE]
      [] answer = "keepNil" ->
           [newOp |-> NilOp, keep |-> TRUE, err |-> FALSE]
      [] OTHER ->
           [newOp |-> NilOp, keep |-> FALSE, err |-> TRUE]

\* a filterOps that hands delete operations to fn like any other
IsDeleteOpNever(op) == FALSE

\* delete operations should never be dropped
IsDeleteOp(op) == op.amount = DeleteAmount

\* a filterOps that puts a kept operation at the front
AppendOpAtFront(list, op) == <<op>> \o list

\* filteredOps = append(filteredOps, newOp)
AppendOp(list, op) == Append(list, op)

\* a filterOps that puts a delete at the end
PrependOpAtEnd(list, op) == Append(list, op)

\* filteredOps = append([]txnbuild.Operation{newOp}, filteredOps...)
PrependOp(list, op) == <<op>> \o list

\* a filterOps that forgets dropOp.Amount = "0"
DropOpKeepsAmount(offer) == convertOffer2MSO(offer)

\* a remaining offer as the operation that deletes it
DropOp(offer) == [convertOffer2MSO(offer) EXCEPT !.amount = DeleteAmount]

\* an element of filteredOps: the operation, and (not in the code) the input it
\* was made from, which is input operation number ref or the live offer with
\* ID ref, and how: "other", "delete" (an incoming delete), the answer of fn,
\* or "remaining"
Emitted(op, from, ref, how) ==
    [op |-> op, org |-> [from |-> from, ref |-> ref, how |-> how]]

\* a filterOps that hands back what it has filtered so far with the error
ErrorReturnWithPartialList(calls, inc) ==
    [filteredOps |-> filteredOps, fnCalls |-> calls, inc |-> inc, fpc |-> "error"]

\* return nil, fmt.Errorf(...)
ErrorReturn(calls, inc) ==
    [filteredOps |-> <<>>, fnCalls |-> calls, inc |-> inc, fpc |-> "error"]

\* what one iteration of the loop over ops does to the locals of filterOps,
\* when fn, if it is called, gives this answer
LoopBody(o, answer) ==
    IF o.kind # "mso"
    THEN [filteredOps |-> AppendOp(filteredOps, Emitted(o, "op", opCounter + 1, "other")),
          fnCalls |-> fnCalls, inc |-> "op", fpc |-> "loop"]
    ELSE
    LET list == selectBuySellList(o, sellingOffers, buyingOffers, sellCounter, buyCounter)
        sel == selectOpOrOffer(list.offerList, list.idx, o, ignoreOfferIDs(ops))
        \* filterCounterToIncrement
        inc == IF sel.c = "op" THEN "op" ELSE list.counter
        isOffer == sel.originalOffer # NilOp
        from == IF isOffer THEN "offer" ELSE "op"
        ref == IF isOffer THEN sel.opToTransform.offerID ELSE opCounter + 1
        isDelete == IsDeleteOp(sel.opToTransform)
        res == IF isDelete
               THEN [newOp |-> sel.opToTransform, keep |-> TRUE, err |-> FALSE]
               ELSE ApplyFn(answer, sel.opToTransform)
        how == IF isDelete THEN "delete" ELSE answer
        calls == IF isDelete THEN fnCalls
                 ELSE Append(fnCalls, [from |-> from, ref |-> ref, how |-> answer])
        same == res.newOp.price = sel.opToTransform.price
                /\ res.newOp.amount = sel.opToTransform.amount
    IN
    IF list.err \/ sel.err
    THEN \* unable to pick between whether the op was a buy or sell op, or error
         \* while picking op or offer: before filterCounterToIncrement.idx++
         ErrorReturn(fnCalls, "none")
    ELSE IF sel.isIgnoredOffer
    THEN [filteredOps |-> filteredOps, fnCalls |-> fnCalls, inc |-> inc, fpc |-> "loop"]
    ELSE IF res.err
    THEN \* could not transform offer (pointer case)
         ErrorReturn(calls, inc)
    ELSE IF res.keep
    THEN IF res.newOp = NilOp
         THEN \* we want to keep op but newOp was nil
              ErrorReturn(calls, inc)
         ELSE IF isOffer /\ same
         THEN \* an existing offer that we want to keep as-is
              [filteredOps |-> filteredOps, fnCalls |-> calls, inc |-> inc,
               fpc |-> "loop"]
         ELSE \* an existing offer that was changed, or an operation
              [filteredOps |-> AppendOp(filteredOps, Emitted(res.newOp, from, ref, how)),
               fnCalls |-> calls, inc |-> inc, fpc |-> "loop"]
    ELSE IF res.newOp # NilOp
         THEN \* prepend this so we always have delete commands at the beginning
              [filteredOps |-> PrependOp(filteredOps, Emitted(res.newOp, from, ref, how)),
               fnCalls |-> calls, inc |-> inc, fpc |-> "loop"]
         ELSE [filteredOps |-> filteredOps, fnCalls |-> calls, inc |-> inc,
               fpc |-> "loop"]

\* for opCounter.idx < len(ops) { ... }: one iteration
FilterLoop ==
    /\ fpc = "loop"
    /\ opCounter < Len(ops)
    /\ \E answer \in FnAnswers :
       LET b == LoopBody(ops[opCounter + 1], answer) IN
       /\ filteredOps' = b.filteredOps
       /\ fnCalls' = b.fnCalls
       /\ fpc' = b.fpc
       /\ opCounter' = IF b.inc = "op" THEN opCounter + 1 ELSE opCounter
       /\ sellCounter' = IF b.inc = "sell" THEN sellCounter + 1 ELSE sellCounter
       /\ buyCounter' = IF b.inc = "buy" THEN buyCounter + 1 ELSE buyCounter
    /\ UNCHANGED <<ops, sellingOffers, buyingOffers>>
    /\ UNCHANGED <<allOffers, composeVars, traderVars, sideVars, twapVars, uuidVars, exitVars, dagVars, staticVars, backtestVars>>

\* for counter.idx < len(offers) { dropOp := ...; prepend; counter.idx++ }
RECURSIVE DropRemaining(_, _, _)
DropRemaining(offers, idx, list) ==
    IF idx >= Len(offers)
    THEN list
    ELSE DropRemaining(offers, idx + 1,
            PrependOp(list, Emitted(DropOp(offers[idx + 1]), "offer",
                                    offers[idx + 1].id, "remaining")))

\* after the loop over ops: convert all remaining buy and sell offers to delete
\* offers, and return
FilterRemaining ==
    /\ fpc = "loop"
    /\ opCounter >= Len(ops)
    /\ filteredOps' = DropRemaining(buyingOffers, buyCounter,
                          DropRemaining(sellingOffers, sellCounter, filteredOps))
    /\ sellCounter' = IF sellCounter < Len(sellingOffers) THEN Len(sellingOffers)
                      ELSE sellCounter
    /\ buyCounter' = IF buyCounter < Len(buyingOffers) THEN Len(buyingOffers)
                     ELSE buyCounter
    /\ fpc' = "done"
    /\ UNCHANGED <<ops, sellingOffers, buyingOffers, opCounter, fnCalls>>
    /\ UNCHANGED <<allOffers, composeVars, traderVars, sideVars, twapVars, uuidVars, exitVars, dagVars, staticVars, backtestVars>>

-----------------------------------------------------------------------------
(* The inputs of filterOps *)

\* sequences over S of length at most n
SeqsUpTo(S, n) == UNION {[1..k -> S] : k \in 0..n}

\* the live offers of one side: IDs in list order, prices ascending
OfferLists(side) ==
    LET ids == OfferIDs(side)
        first == CHOOSE i \in ids : \A j \in ids : i <= j
    IN {[k \in 1..Len(ps) |-> Offer(side, first + k - 1, ps[k], FullAmount)] :
          ps \in {q \in SeqsUpTo(Prices, MaxOffers) :
                    \A k \in 1..(Len(q) - 1) : q[k] <= q[k + 1]}}

\* the operations a strategy may propose
InputOps ==
    {ManageSellOffer(sd, id, p, a) :
        sd \in Sides, id \in {0} \cup (1..(2 * MaxOffers)), p \in Prices,
        a \in {DeleteAmount, FullAmount}}
    \cup {ManageSellOffer(sd, 0, BadPrice, FullAmount) : sd \in Sides}
    \* an operation on other assets than the trading pair
    \cup {ManageSellOffer("neither", 0, 1, FullAmount)}
    \cup {OtherOp}

\* the side an operation belongs to ("none": it has no side)
SideOfOp(o) == IF o.kind = "mso" THEN o.side ELSE "none"

\* the operations of one side are all together
Contiguous(operations) ==
    \A i, j, k \in DOMAIN operations :
        (i < j /\ j < k /\ SideOfOp(operations[i]) = SideOfOp(operations[k]))
            => SideOfOp(operations[j]) = SideOfOp(operations[i])

\* an operation on an offer names an offer ID of its own side, and only an
\* operation on an offer deletes
WellFormedOp(o) ==
    o.kind = "mso" =>
        /\ o.offerID # 0 => o.offerID \in OfferIDs(o.side)
        /\ o.offerID = 0 => o.amount # DeleteAmount

OpLists ==
    {os \in SeqsUpTo({o \in InputOps : WellFormedOp(o)}, MaxOps) : Contiguous(os)}

InitFilter ==
    /\ BacktestOff
    /\ StaticOff
    /\ DagOff
    /\ ops \in OpLists
    /\ sellingOffers \in OfferLists("sell")
    /\ buyingOffers \in OfferLists("buy")
    /\ opCounter = 0
    /\ sellCounter = 0
    /\ buyCounter = 0
    /\ filteredOps = <<>>
    /\ fnCalls = <<>>
    /\ fpc = "loop"
    /\ allOffers = NoOffers
    /\ ComposeOff
    /\ TraderOff
    /\ SideOff
    /\ TwapOff
    /\ UuidOff
    /\ ExitOff

NextFilter ==
    \/ FilterLoop
    \/ FilterRemaining

SpecFilter == InitFilter /\ [][NextFilter]_vars

-----------------------------------------------------------------------------
(* Properties of filterOps *)

Range(q) == {q[i] : i \in DOMAIN q}

\* the elements of filteredOps made from an input operation
FromOp(k) == filteredOps[k].org.from = "op"
\* the elements of filteredOps made from a live offer
FromOffer(k) == filteredOps[k].org.from = "offer"
\* the input operation an element of filteredOps was made from
InputOf(k) == ops[filteredOps[k].org.ref]
\* the element is a Delete
IsDelete(k) == filteredOps[k].op.kind = "mso" /\ filteredOps[k].op.amount = DeleteAmount
\* the Delete that filterOps made for a live offer (dropped by fn, or remaining)
IsGeneratedDelete(k) == FromOffer(k) /\ IsDelete(k)

\* C4 as claimed: the output operations that stem from input operations of one
\* side are in the order of the input; filterOps never reorders the input.
C4_InputOrderKept ==
    \A i, j \in DOMAIN filteredOps :
        (i < j /\ FromOp(i) /\ FromOp(j) /\ SideOfOp(InputOf(i)) = SideOfOp(InputOf(j)))
            => filteredOps[i].org.ref < filteredOps[j].org.ref

\* C4 amended: the output operations that stem from the input operations that
\* fn did not drop are in the order of the input, side by side; an input
\* operation that fn drops is emitted as the Delete of its offer with only
\* Deletes ahead of it; no input operation is emitted twice.
C4_KeptInputOrderKept ==
    /\ \A i, j \in DOMAIN filteredOps :
          (i < j /\ FromOp(i) /\ FromOp(j)
             /\ filteredOps[i].org.how # "drop" /\ filteredOps[j].org.how # "drop"
             /\ SideOfOp(InputOf(i)) = SideOfOp(InputOf(j)))
              => filteredOps[i].org.ref < filteredOps[j].org.ref
    /\ \A j \in DOMAIN filteredOps :
          (FromOp(j) /\ filteredOps[j].org.how = "drop")
              => /\ IsDelete(j)
                 /\ filteredOps[j].op.offerID = InputOf(j).offerID
                 /\ \A i \in 1..(j - 1) : IsDelete(i)
    /\ \A i, j \in DOMAIN filteredOps :
          (i # j /\ FromOp(i) /\ FromOp(j))
              => filteredOps[i].org.ref # filteredOps[j].org.ref

\* C4 witness: two kept operations of one side and an operation made from a
\* live offer are in the output of a finished pass.
C4_Witness ==
    /\ fpc = "done"
    /\ \E i, j, k \in DOMAIN filteredOps :
          /\ i < j /\ FromOp(i) /\ FromOp(j) /\ FromOffer(k)
          /\ filteredOps[i].org.how # "drop" /\ filteredOps[j].org.how # "drop"
          /\ SideOfOp(InputOf(i)) = SideOfOp(InputOf(j))

\* the live offers no incoming operation refers to
UnreferencedOffers ==
    {o \in Range(sellingOffers) \cup Range(buyingOffers) : o.id \notin ignoreOfferIDs(ops)}

\* fn was asked about the live offer and kept it (as it is, or changed)
KeptByFn(id) ==
    \E k \in DOMAIN fnCalls :
        /\ fnCalls[k].from = "offer" /\ fnCalls[k].ref = id
        /\ fnCalls[k].how \in {"keep", "change"}

\* C5: when filterOps returns its operations, every live offer that no incoming
\* operation refers to and that fn did not keep is in the output as a Delete:
\* an operation with the offer's ID and amount "0".
C5_UnkeptOffersDeleted ==
    fpc = "done" =>
        \A o \in UnreferencedOffers :
            ~KeptByFn(o.id) =>
                \E k \in DOMAIN filteredOps :
                    IsDelete(k) /\ filteredOps[k].op.offerID = o.id

\* C5 witness: a pass has finished in which fn dropped a live offer and another
\* live offer was left over, neither referred to by an operation.
C5_Witness ==
    /\ fpc = "done"
    /\ \E k \in DOMAIN fnCalls :
          fnCalls[k].from = "offer" /\ fnCalls[k].how = "drop"
    /\ \E k \in DOMAIN filteredOps : filteredOps[k].org.how = "remaining"
    /\ \A k \in DOMAIN filteredOps :
          FromOffer(k) => filteredOps[k].org.ref \notin ignoreOfferIDs(ops)

\* C6 as claimed: a live offer whose ID is the offerID of an incoming operation
\* is never passed to fn, and no output operation is made from it, the
\* conversion of the remaining offers included.
C6_ReferencedOffersNeverEvaluated ==
    /\ \A k \in DOMAIN fnCalls :
          fnCalls[k].from = "offer" => fnCalls[k].ref \notin ignoreOfferIDs(ops)
    /\ \A k \in DOMAIN filteredOps :
          FromOffer(k) => filteredOps[k].org.ref \notin ignoreOfferIDs(ops)

\* C7: fn is never applied to an incoming operation whose amount is "0", and
\* unless filterOps fails every such operation it has passed is in the output
\* as it came in.
C7_DeletesKeptUnchanged ==
    /\ \A k \in DOMAIN fnCalls :
          fnCalls[k].from = "op" => ops[fnCalls[k].ref].amount # DeleteAmount
    /\ fpc # "error" =>
          \A i \in 1..opCounter :
              (ops[i].kind = "mso" /\ ops[i].amount = DeleteAmount)
                  => \E k \in DOMAIN filteredOps :
                        /\ FromOp(k) /\ filteredOps[k].org.ref = i
                        /\ filteredOps[k].op = ops[i]

\* C7 witness: a pass has finished whose input had a delete operation, and fn
\* dropped a live offer of its side.
C7_Witness ==
    /\ fpc = "done"
    /\ \E i \in DOMAIN ops, k \in DOMAIN filteredOps :
          /\ ops[i].kind = "mso" /\ ops[i].amount = DeleteAmount
          /\ IsGeneratedDelete(k)
          /\ filteredOps[k].org.how = "drop"
          /\ filteredOps[k].op.side = ops[i].side

\* C8: a Delete that filterOps makes for a live offer has nothing ahead of it
\* but Deletes that filterOps put at the front: it precedes every operation of
\* its segment (and of the list) that is kept, changed or passed through.
C8_GeneratedDeletesFirst ==
    \A i, j \in DOMAIN filteredOps :
        (i < j /\ IsGeneratedDelete(j))
            => /\ IsDelete(i)
               /\ filteredOps[i].org.how \in {"drop", "remaining"}

\* C8 witness: a pass has finished with a Delete made for a dropped live offer,
\* a Delete made for a remaining live offer and, after them, an operation of
\* the same side that is no Delete.
C8_Witness ==
    /\ fpc = "done"
    /\ \E i, j, k \in DOMAIN filteredOps :
          /\ IsGeneratedDelete(i) /\ filteredOps[i].org.how = "drop"
          /\ IsGeneratedDelete(j) /\ filteredOps[j].org.how = "remaining"
          /\ i < k /\ j < k /\ ~IsDelete(k)
          /\ filteredOps[k].op.kind = "mso"
          /\ filteredOps[k].op.side = filteredOps[i].op.side
          /\ filteredOps[k].op.side = filteredOps[j].op.side

\* an iteration of the loop over ops is about to look at a create or modify
\* operation of the trading pair with a price that parses
AtCreateOrModify ==
    /\ fpc = "loop"
    /\ opCounter < Len(ops)
    /\ ops[opCounter + 1].kind = "mso"
    /\ ops[opCounter + 1].amount # DeleteAmount
    /\ ops[opCounter + 1].side \in Sides
    /\ ops[opCounter + 1].price # BadPrice

\* the live offers of the side of the operation the loop is at
OffersOfItsSide ==
    IF ops[opCounter + 1].side = "sell" THEN sellingOffers ELSE buyingOffers

\* how many of them the loop has passed
PassedOfItsSide ==
    IF ops[opCounter + 1].side = "sell" THEN sellCounter ELSE buyCounter

\* the iteration passes the live offer to fn and stays at the operation
EvaluatesOffer(offer) ==
    /\ Len(fnCalls') = Len(fnCalls) + 1
    /\ fnCalls'[Len(fnCalls')].from = "offer"
    /\ fnCalls'[Len(fnCalls')].ref = offer.id
    /\ opCounter' = opCounter

\* the iteration passes the operation to fn and moves on to the next one
EvaluatesOperation ==
    /\ Len(fnCalls') = Len(fnCalls) + 1
    /\ fnCalls'[Len(fnCalls')].from = "op"
    /\ fnCalls'[Len(fnCalls')].ref = opCounter + 1
    /\ opCounter' = opCounter + 1

\* C23 as stated: at a create or modify operation whose side has a next live
\* offer that no operation refers to, the iteration evaluates the live offer
\* exactly when the offer's price is lower than the operation's, and the
\* operation otherwise; with no live offer left it evaluates the operation.
C23_OfferFirstExactlyWhenCheaper ==
    [][AtCreateOrModify =>
         IF PassedOfItsSide >= Len(OffersOfItsSide)
         THEN EvaluatesOperation
         ELSE LET offer == OffersOfItsSide[PassedOfItsSide + 1] IN
              offer.id \notin ignoreOfferIDs(ops) =>
                 IF offer.price < ops[opCounter + 1].price
                 THEN EvaluatesOffer(offer)
                 ELSE EvaluatesOperation
      ]_vars

\* C23 amended: the iteration evaluates the live offer exactly when the offer's
\* price is lower than or equal to the operation's, and the operation when the
\* operation's price is lower or no live offer is left on its side.
C23_OfferFirstExactlyWhenNotDearer ==
    [][AtCreateOrModify =>
         IF PassedOfItsSide >= Len(OffersOfItsSide)
         THEN EvaluatesOperation
         ELSE LET offer == OffersOfItsSide[PassedOfItsSide + 1] IN
              offer.id \notin ignoreOfferIDs(ops) =>
                 IF offer.price <= ops[opCounter + 1].price
                 THEN EvaluatesOffer(offer)
                 ELSE EvaluatesOperation
      ]_vars

\* C23 witness: fn was asked about a live offer and later about a create or
\* modify operation of the same side and the same price.
C23_Witness ==
    \E i, j \in DOMAIN fnCalls :
        /\ i < j
        /\ fnCalls[i].from = "offer"
        /\ fnCalls[j].from = "op"
        /\ \E offer \in Range(sellingOffers) \cup Range(buyingOffers) :
              /\ offer.id = fnCalls[i].ref
              /\ offer.side = ops[fnCalls[j].ref].side
              /\ offer.price = ops[fnCalls[j].ref].price

\* C24: when filterOps returns and fn has kept, as it is, whatever it was asked
\* about, the output holds no operation made from a live offer that no incoming
\* operation refers to.
C24_KeptOffersEmitNothing ==
    (fpc = "done" /\ \A k \in DOMAIN fnCalls : fnCalls[k].how = "keep")
        => \A k \in DOMAIN filteredOps :
              FromOffer(k) => filteredOps[k].org.ref \in ignoreOfferIDs(ops)

\* an iteration of the loop over ops is about to run
AtIteration == fpc = "loop" /\ opCounter < Len(ops)

\* how many of the three cursors the iteration moves, each by one
CursorsAdvanced ==
    (IF opCounter' = opCounter + 1 THEN 1 ELSE 0)
    + (IF sellCounter' = sellCounter + 1 THEN 1 ELSE 0)
    + (IF buyCounter' = buyCounter + 1 THEN 1 ELSE 0)

\* no cursor moves otherwise
CursorsStayOrAdvance ==
    /\ opCounter' \in {opCounter, opCounter + 1}
    /\ sellCounter' \in {sellCounter, sellCounter + 1}
    /\ buyCounter' \in {buyCounter, buyCounter + 1}

\* how often input operation number i was looked at: handed to fn, or passed
\* on as a delete or as an operation that is no ManageSellOffer
TimesOpSeen(i) ==
    Cardinality({k \in DOMAIN fnCalls : fnCalls[k].from = "op" /\ fnCalls[k].ref = i})
    + Cardinality({k \in DOMAIN filteredOps :
                      /\ FromOp(k)
                      /\ filteredOps[k].org.ref = i
                      /\ filteredOps[k].org.how \in {"other", "delete"}})

\* how often the live offer with this ID was handed to fn
TimesOfferSeen(id) ==
    Cardinality({k \in DOMAIN fnCalls : fnCalls[k].from = "offer" /\ fnCalls[k].ref = id})

\* C35: every iteration of the main loop of filterOps that goes on to the next
\* one advances exactly one of opCounter, sellCounter and buyCounter by one (an
\* iteration that returns an error advances at most one); no cursor exceeds
\* the length of its list; an operation is looked at at most once, and exactly
\* once when filterOps returns its list; a live offer is handed to fn at most
\* once. The iterations so far are therefore as many as the sum of the three
\* cursors, which is at most len(ops) + len(sellingOffers) + len(buyingOffers).
C35_OneCursorAdvancesPerIteration ==
    /\ [](/\ opCounter <= Len(ops)
          /\ sellCounter <= Len(sellingOffers)
          /\ buyCounter <= Len(buyingOffers)
          /\ \A i \in DOMAIN ops : TimesOpSeen(i) <= 1
          /\ fpc = "done" => \A i \in DOMAIN ops : TimesOpSeen(i) = 1
          /\ \A id \in OfferIDs("sell") \cup OfferIDs("buy") : TimesOfferSeen(id) <= 1)
    /\ [][AtIteration =>
            /\ CursorsStayOrAdvance
            /\ CursorsAdvanced <= 1
            /\ fpc' = "loop" => CursorsAdvanced = 1
            /\ fpc' \in {"loop", "error"}
         ]_vars

\* C35 witness: filterOps has returned after iterations that advanced each of
\* the three cursors, having asked fn about operations and about live offers.
C35_Witness ==
    /\ fpc = "done"
    /\ Len(ops) = MaxOps
    /\ \E k \in DOMAIN fnCalls : fnCalls[k].from = "offer" /\ fnCalls[k].ref \in OfferIDs("sell")
    /\ \E k \in DOMAIN fnCalls : fnCalls[k].from = "offer" /\ fnCalls[k].ref \in OfferIDs("buy")
    /\ \E k \in DOMAIN fnCalls : fnCalls[k].from = "op"

\* the iteration meets one of the failures of filterOps: the operation is on
\* other assets than the trading pair, its price does not parse when it is
\* compared with the next live offer of its side, fn fails, or fn says keep
\* and hands back nil
IterationFails ==
    /\ AtIteration
    /\ ops[opCounter + 1].kind = "mso"
    /\ \/ ops[opCounter + 1].side \notin Sides
       \/ /\ ops[opCounter + 1].side \in Sides
          /\ ops[opCounter + 1].price = BadPrice
          /\ PassedOfItsSide < Len(OffersOfItsSide)
          /\ OffersOfItsSide[PassedOfItsSide + 1].id \notin ignoreOfferIDs(ops)
       \/ /\ Len(fnCalls') = Len(fnCalls) + 1
          /\ fnCalls'[Len(fnCalls')].how \in {"error", "keepNil"}

\* C39: an iteration of filterOps in which fn fails, or fn says keep and hands
\* back no operation, or the side or the price of the operation cannot be
\* determined, makes filterOps return an error and the nil list; whenever
\* filterOps has returned an error its list is nil.
C39_ErrorsReturnNilList ==
    /\ [](fpc = "error" => filteredOps = <<>>)
    /\ [][IterationFails => fpc' = "error" /\ filteredOps' = <<>>]_vars

\* C39 witness: filterOps has returned an error from a call of fn after it had
\* put an operation that fn kept on its list.
C39_Witness ==
    /\ fpc = "error"
    /\ Len(fnCalls) >= 2
    /\ fnCalls[Len(fnCalls)].how \in {"error", "keepNil"}
    /\ fnCalls[1].from = "op"
    /\ fnCalls[1].how \in {"keep", "change"}

-----------------------------------------------------------------------------
(* composeStrategy *)

\* the longest operation list a side strategy returns
MaxSideOps == 2

\* model.InvertNumber: nil for nil, else 1/n
InvertNumber(x) == IF x = NilNumber THEN NilNumber ELSE Number(x.d, x.n)

\* a composeStrategy that puts the sell side first only above the top sell price
CrossesStrictly(newTopBuyPrice, offers) ==
    /\ newTopBuyPrice # NilNumber
    /\ Len(offers.SellingAOffers) > 0
    /\ newTopBuyPrice.n > offers.SellingAOffers[1].price * newTopBuyPrice.d

\* newTopBuyPrice != nil && len(allOffers.SellingAOffers) > 0 &&
\* newTopBuyPrice.AsFloat() >= utils.PriceAsFloat(allOffers.SellingAOffers[0].Price)
Crosses(newTopBuyPrice, offers) ==
    /\ newTopBuyPrice # NilNumber
    /\ Len(offers.SellingAOffers) > 0
    /\ newTopBuyPrice.n >= offers.SellingAOffers[1].price * newTopBuyPrice.d

\* a composeStrategy that reports one side only
CombineErrorsFirstOnly(e1, e2) ==
    IF e1 THEN "buying" ELSE IF e2 THEN "selling" ELSE "none"

\* the error of the composite for the errors e1 of the buy side and e2 of the
\* sell side: "none" for nil, "both" for "errors on both sides: ...", "buying"
\* for "error in buying sub-strategy", "selling" for "error in selling
\* sub-strategy"
CombineErrors(e1, e2) ==
    IF ~e1 /\ ~e2 THEN "none"
    ELSE IF e1 /\ e2 THEN "both"
    ELSE IF e1 THEN "buying"
    ELSE "selling"

\* composeStrategy.PreUpdate, for what the two sides return
ComposePreUpdate(e1, e2) ==
    [method |-> "PreUpdate", ops |-> <<>>, err |-> CombineErrors(e1, e2)]

\* composeStrategy.UpdateWithOps, for what the two sides return
ComposeUpdateWithOps(buyRes, sellRes, offers) ==
    LET newTopBuyPrice == InvertNumber(buyRes.top)
        e == CombineErrors(buyRes.err, sellRes.err)
    IN IF e # "none"
       THEN [method |-> "UpdateWithOps", ops |-> <<>>, err |-> e]
       ELSE IF Crosses(newTopBuyPrice, offers)
       THEN [method |-> "UpdateWithOps", ops |-> sellRes.ops \o buyRes.ops, err |-> e]
       ELSE [method |-> "UpdateWithOps", ops |-> buyRes.ops \o sellRes.ops, err |-> e]

\* the sides a call of PreUpdate or UpdateWithOps invokes: buyStrat, then
\* sellStrat, whatever buyStrat returned
SidesInvoked == <<"buy", "sell">>

\* the operations a side strategy may return: new offers of its side
SideOps(side) ==
    SeqsUpTo({ManageSellOffer(side, 0, p, FullAmount) : p \in Prices}, MaxSideOps)

\* the top prices a side strategy may return
TopPrices == {NilNumber} \cup {Number(n, d) : n \in Prices, d \in Prices}

\* what a side strategy may return to UpdateWithOps
SideResults(side) ==
    [ops : SideOps(side), top : TopPrices, err : BOOLEAN]

\* s.buyStrat.PreUpdate, s.sellStrat.PreUpdate and the combination of their
\* errors
CallPreUpdate ==
    /\ cpc = "idle"
    /\ \E e1, e2 \in BOOLEAN :
       /\ sideResults' = [buy |-> [NoSideResult EXCEPT !.err = e1],
                          sell |-> [NoSideResult EXCEPT !.err = e2]]
       /\ composeResult' = ComposePreUpdate(e1, e2)
       /\ cpc' = IF CombineErrors(e1, e2) = "none" THEN "preUpdated" ELSE "idle"
    /\ sideCalls' = SidesInvoked
    /\ UNCHANGED <<filterVars, allOffers, traderVars, sideVars, twapVars, uuidVars, exitVars, dagVars, staticVars, backtestVars>>

\* s.buyStrat.UpdateWithOps, s.sellStrat.UpdateWithOps and the combination of
\* their results
CallUpdateWithOps ==
    /\ cpc = "preUpdated"
    /\ \E buyRes \in SideResults("buy"), sellRes \in SideResults("sell") :
       /\ sideResults' = [buy |-> buyRes, sell |-> sellRes]
       /\ composeResult' = ComposeUpdateWithOps(buyRes, sellRes, allOffers)
    /\ sideCalls' = SidesInvoked
    /\ cpc' = "idle"
    /\ UNCHANGED <<filterVars, allOffers, traderVars, sideVars, twapVars, uuidVars, exitVars, dagVars, staticVars, backtestVars>>

InitCompose ==
    /\ BacktestOff
    /\ StaticOff
    /\ DagOff
    /\ FilterOff
    /\ allOffers \in [SellingAOffers : OfferLists("sell"), BuyingAOffers : {<<>>}]
    /\ ComposeAt("idle")
    /\ TraderOff
    /\ SideOff
    /\ TwapOff
    /\ UuidOff
    /\ ExitOff

NextCompose ==
    \/ CallPreUpdate
    \/ CallUpdateWithOps

SpecCompose == InitCompose /\ [][NextCompose]_vars

-----------------------------------------------------------------------------
(* Properties of composeStrategy *)

\* the last call was UpdateWithOps and neither side failed
UpdatedWithoutError ==
    /\ composeResult.method = "UpdateWithOps"
    /\ ~sideResults.buy.err
    /\ ~sideResults.sell.err

\* the top buy price the buy side returned, in the terms of the composite, is
\* at least the price of the first live sell offer
TopBuyReachesTopSell ==
    /\ sideResults.buy.top # NilNumber
    /\ Len(allOffers.SellingAOffers) > 0
    /\ sideResults.buy.top.d >= allOffers.SellingAOffers[1].price * sideResults.buy.top.n

\* C9: when neither side fails, UpdateWithOps returns the sell operations
\* followed by the buy operations if the new top buy price is not nil, there is
\* a live sell offer and the top buy price is at least the price of the first
\* live sell offer; otherwise it returns the buy operations followed by the
\* sell operations: every operation of both sides once, in its side's order.
C9_SellFirstExactlyWhenCrossing ==
    UpdatedWithoutError =>
        /\ TopBuyReachesTopSell
              => composeResult.ops = sideResults.sell.ops \o sideResults.buy.ops
        /\ ~TopBuyReachesTopSell
              => composeResult.ops = sideResults.buy.ops \o sideResults.sell.ops

\* C9 witness: UpdateWithOps has returned the sell operations ahead of the buy
\* operations for a top buy price equal to the price of the first live sell
\* offer, both sides having operations.
C9_Witness ==
    /\ UpdatedWithoutError
    /\ TopBuyReachesTopSell
    /\ sideResults.buy.top.d = allOffers.SellingAOffers[1].price * sideResults.buy.top.n
    /\ sideResults.buy.ops # <<>>
    /\ sideResults.sell.ops # <<>>
    /\ composeResult.ops = sideResults.sell.ops \o sideResults.buy.ops
    /\ composeResult.ops # sideResults.buy.ops \o sideResults.sell.ops

\* C10: PreUpdate and UpdateWithOps invoke both sides whatever the first one
\* returns; they return an error exactly when at least one side failed, the
\* combined one when both failed and the one naming the side when one failed;
\* UpdateWithOps returns no operation with an error.
C10_ErrorsOfBothSidesSurfaced ==
    composeResult.method # "none" =>
        /\ sideCalls = <<"buy", "sell">>
        /\ (composeResult.err # "none") <=> (sideResults.buy.err \/ sideResults.sell.err)
        /\ (sideResults.buy.err /\ sideResults.sell.err) => composeResult.err = "both"
        /\ (sideResults.buy.err /\ ~sideResults.sell.err) => composeResult.err = "buying"
        /\ (~sideResults.buy.err /\ sideResults.sell.err) => composeResult.err = "selling"
        /\ (composeResult.err # "none") => composeResult.ops = <<>>

\* C10 witness: UpdateWithOps has returned the combined error and no operation
\* although both sides, failing, returned operations.
C10_Witness ==
    /\ composeResult.method = "UpdateWithOps"
    /\ sideResults.buy.err
    /\ sideResults.sell.err
    /\ sideResults.buy.ops # <<>>
    /\ sideResults.sell.ops # <<>>
    /\ composeResult.err = "both"
    /\ composeResult.ops = <<>>
    /\ sideCalls = <<"buy", "sell">>

-----------------------------------------------------------------------------
(* The venue: SDEX *)

\* sdex.DeleteOffer: the operation that deletes the offer
DeleteOffer(offer) ==
    ManageSellOffer(offer.side, offer.id, offer.price, DeleteAmount)

\* sdex.DeleteAllOffers: one delete per offer, in list order
DeleteAllOffers(offers) == [i \in DOMAIN offers |-> DeleteOffer(offers[i])]

\* sdex.CreateSellOffer
CreateSellOffer(side, price, amount) == ManageSellOffer(side, 0, price, amount)

\* sdex.ModifySellOffer
ModifySellOffer(offer, price, amount) ==
    ManageSellOffer(offer.side, offer.id, price, amount)

\* what one operation does to the offers that rest on the venue; id is the ID
\* of the next new offer
ApplyOp(book, op, id) ==
    IF op.amount = DeleteAmount
    THEN [book |-> {o \in book : o.id # op.offerID}, id |-> id]
    ELSE IF op.offerID # 0
    THEN [book |-> {IF o.id = op.offerID
                    THEN Offer(o.side, o.id, op.price, op.amount) ELSE o : o \in book},
          id |-> id]
    ELSE [book |-> book \cup {Offer(op.side, id, op.price, op.amount)},
          id |-> id + 1]

\* the venue after the first n operations of a submission
RECURSIVE ApplyOps(_, _, _, _)
ApplyOps(book, operations, n, id) ==
    IF n = 0
    THEN [book |-> book, id |-> id]
    ELSE LET prev == ApplyOps(book, operations, n - 1, id)
         IN ApplyOp(prev.book, operations[n], prev.id)

\* sdex.SubmitOps: how many operations of the submission the venue applies;
\* all of them when it succeeds, fewer when it returns an error
SubmitOutcomes(operations) == 0..Len(operations)

\* the offers of one side
OffersOf(book, side) == {o \in book : o.side = side}

\* sort.Sort(utils.ByPrice(offers)): the orders an unstable sort may leave
SortedByPrice(S) ==
    {q \in [1..Cardinality(S) -> S] :
        /\ \A i, j \in 1..Cardinality(S) : i # j => q[i] # q[j]
        /\ \A i \in 1..(Cardinality(S) - 1) : q[i].price <= q[i + 1].price}

\* DatumOffers.Load
LoadOffers(book) ==
    {[SellingAOffers |-> sl, BuyingAOffers |-> bl] :
        sl \in SortedByPrice(OffersOf(book, "sell")),
        bl \in SortedByPrice(OffersOf(book, "buy"))}

-----------------------------------------------------------------------------
(* sellSideStrategy; amounts are whole numbers of the smallest amount the
   venue's precision can express *)

\* the most levels a side has under the Trader
MaxLevels == 1

\* api.Level
Level(price, amount) == [price |-> price, amount |-> amount]

\* the levels a LevelProvider may return to a side under the Trader
LevelLists == SeqsUpTo({Level(p, FullAmount) : p \in Prices}, MaxLevels)

\* model.NumberFromFloat(a / p, precision): the quotient rounded to the nearest
\* amount the precision can express, a half rounded up
NumberFromFloatDiv(a, p) == (2 * a + p) \div (2 * p)

\* a target amount that is not capped by the balance of the base asset
TargetAmountUncapped(side, level, cfg) ==
    IF side = "buy" THEN NumberFromFloatDiv(level.amount, level.price)
    ELSE level.amount

\* updateSellLevel: targetAmount, divided by the price on the buy side and
\* capped by maxAssetBase (math.Min); cfg: the tolerances and maxAssetBase
TargetAmount(side, level, cfg) ==
    LET targetAmount == IF side = "buy"
                        THEN NumberFromFloatDiv(level.amount, level.price)
                        ELSE level.amount
    IN IF targetAmount < cfg.maxAssetBase THEN targetAmount ELSE cfg.maxAssetBase

\* a trigger that fires whenever cur is not the target
TriggerUnlessEqual(cur, target, tolerance) == cur # target

\* cur > target + target*tolerance || cur < target - target*tolerance
Trigger(cur, target, tolerance) ==
    \/ cur * tolerance.d > target * (tolerance.d + tolerance.n)
    \/ cur * tolerance.d < target * (tolerance.d - tolerance.n)

\* a PruneExistingOffers that deletes the offers at the front of the list
SidePruneFromFront(offers, levels) ==
    [pruneOps |-> [i \in 1..(IF Len(offers) > Len(levels)
                             THEN Len(offers) - Len(levels) ELSE 0)
                     |-> DeleteOffer(offers[i])],
     offers |-> IF Len(offers) > Len(levels)
                THEN SubSeq(offers, 1, Len(levels)) ELSE offers]

\* sellSideStrategy.PruneExistingOffers
SidePruneExistingOffers(offers, levels) ==
    [pruneOps |-> [i \in 1..(IF Len(offers) > Len(levels)
                             THEN Len(offers) - Len(levels) ELSE 0)
                     |-> DeleteOffer(offers[Len(levels) + i])],
     offers |-> IF Len(offers) > Len(levels)
                THEN SubSeq(offers, 1, Len(levels)) ELSE offers]

\* an updateSellLevel that modifies a live order whatever its price and amount
updateSellLevelAlways(side, offers, levels, i, cfg) ==
    IF Len(offers) < i
    THEN CreateSellOffer(side, levels[i].price, TargetAmount(side, levels[i], cfg))
    ELSE ModifySellOffer(offers[i], levels[i].price,
                         TargetAmount(side, levels[i], cfg))

\* sellSideStrategy.updateSellLevel for level i (counted from 1)
updateSellLevel(side, offers, levels, i, cfg) ==
    IF Len(offers) < i
    THEN CreateSellOffer(side, levels[i].price, TargetAmount(side, levels[i], cfg))
    ELSE IF \/ Trigger(offers[i].price, levels[i].price, cfg.priceTolerance)
            \/ Trigger(offers[i].amount, TargetAmount(side, levels[i], cfg),
                       cfg.amountTolerance)
    THEN ModifySellOffer(offers[i], levels[i].price,
                         TargetAmount(side, levels[i], cfg))
    ELSE NilOp

\* a loop that appends the operation of the best level first
RECURSIVE LevelOpsBestFirst(_, _, _, _, _)
LevelOpsBestFirst(side, offers, levels, i, cfg) ==
    IF i = 0
    THEN <<>>
    ELSE LET op == updateSellLevel(side, offers, levels, i, cfg)
         IN LevelOpsBestFirst(side, offers, levels, i - 1, cfg)
                \o (IF op = NilOp THEN <<>> ELSE <<op>>)

\* for i := len(s.currentLevels) - 1; i >= 0; i-- { ... ops = append(ops, op) }
RECURSIVE LevelOps(_, _, _, _, _)
LevelOps(side, offers, levels, i, cfg) ==
    IF i = 0
    THEN <<>>
    ELSE LET op == updateSellLevel(side, offers, levels, i, cfg)
         IN (IF op = NilOp THEN <<>> ELSE <<op>>)
                \o LevelOps(side, offers, levels, i - 1, cfg)

\* newTopOffer: the lowest price of the operations, nil without operations
NewTopOffer(operations) ==
    IF operations = <<>>
    THEN NilNumber
    ELSE Number(CHOOSE p \in {operations[i].price : i \in DOMAIN operations} :
                    \A i \in DOMAIN operations : p <= operations[i].price, 1)

\* sellSideStrategy.UpdateWithOps; fail: the balance is not in the state
SideUpdateWithOps(side, offers, levels, fail, cfg) ==
    IF fail
    THEN [ops |-> <<>>, top |-> NilNumber, err |-> TRUE]
    ELSE [ops |-> LevelOps(side, offers, levels, Len(levels), cfg),
          top |-> NewTopOffer(LevelOps(side, offers, levels, Len(levels), cfg)),
          err |-> FALSE]

\* the side strategies the Trader runs: no tolerance, a balance of FullAmount
TraderSideConfig ==
    [priceTolerance |-> Number(0, 1), amountTolerance |-> Number(0, 1),
     maxAssetBase |-> FullAmount]

\* composeStrategy.PruneExistingOffers
ComposePruneExistingOffers(offers, levels) ==
    LET b == SidePruneExistingOffers(offers.BuyingAOffers, levels.buy)
        sl == SidePruneExistingOffers(offers.SellingAOffers, levels.sell)
    IN [pruneOps |-> b.pruneOps \o sl.pruneOps,
        BuyingAOffers |-> b.offers, SellingAOffers |-> sl.offers]

\* strat.MaxHistory(): the larger of the two sides, which both return 0
MaxHistory == 0

-----------------------------------------------------------------------------
(* One sellSideStrategy on its own: PreUpdate, PruneExistingOffers,
   UpdateWithOps *)

\* the most levels the LevelProvider returns to the side
MaxSideLevels == 2

\* the amounts of levels and of live offers
Amounts == 1..FullAmount

\* the balances of the base asset
Balances == 0..FullAmount

\* the tolerances a side is constructed with: none, and a half
Tolerances == {Number(0, 1), Number(1, 2)}

\* the levels the LevelProvider may return
SideLevelLists ==
    SeqsUpTo({Level(p, a) : p \in Prices, a \in Amounts}, MaxSideLevels)

\* the live offers of a side as DatumOffers.Load leaves them: ascending by
\* price, each with its own ID
SideOfferLists(side) ==
    LET first == IF side = "sell" THEN 1 ELSE MaxOffers + 1
    IN {q \in SeqsUpTo({Offer(side, id, p, a) : id \in first..(first + MaxOffers - 1),
                                                p \in Prices, a \in Amounts},
                       MaxOffers) :
            /\ \A k \in DOMAIN q : q[k].id = first + k - 1
            /\ \A k \in 1..(Len(q) - 1) : q[k].price <= q[k + 1].price}

\* a PreUpdate that goes on to the levels with a full trust line only
noCapacityWithoutLineFull(maxAssetBase, lineFull) == maxAssetBase = 0

\* nothingToSell || lineFull
noCapacity(maxAssetBase, lineFull) == maxAssetBase = 0 \/ lineFull

\* sellSideStrategy.PreUpdate; found: the balances and the trust line are in
\* the state; lineFull: maxAssetQuote == trustQuote; levelsErr: GetLevels
\* returned an error; asked: GetLevels was called
SidePreUpdate ==
    /\ spc = "idle"
    /\ \E found, lineFull, levelsErr \in BOOLEAN, maxAssetBase \in Balances,
          levels \in SideLevelLists :
          LET seen == [found |-> found, maxAssetBase |-> maxAssetBase,
                       lineFull |-> lineFull]
          IN IF ~found
             THEN /\ spc' = "failed"
                  /\ strat' = strat
                  /\ sidePre' = <<seen @@ [asked |-> FALSE, err |-> TRUE]>>
             ELSE IF noCapacity(maxAssetBase, lineFull)
             THEN /\ spc' = "preUpdated"
                  /\ strat' = [strat EXCEPT !.maxAssetBase = maxAssetBase,
                                            !.currentLevels = <<>>]
                  /\ sidePre' = <<seen @@ [asked |-> FALSE, err |-> FALSE]>>
             ELSE IF levelsErr
             THEN /\ spc' = "failed"
                  /\ strat' = [strat EXCEPT !.maxAssetBase = maxAssetBase,
                                            !.currentLevels = <<>>]
                  /\ sidePre' = <<seen @@ [asked |-> TRUE, err |-> TRUE]>>
             ELSE /\ spc' = "preUpdated"
                  /\ strat' = [strat EXCEPT !.maxAssetBase = maxAssetBase,
                                            !.currentLevels = levels]
                  /\ sidePre' = <<seen @@ [asked |-> TRUE, err |-> FALSE]>>
    /\ UNCHANGED <<sideOffers, sidePruned, sideGiven, sideUpdated, sideLevelOps, sideTick>>
    /\ UNCHANGED <<filterVars, allOffers, composeVars, traderVars, twapVars, uuidVars, exitVars, dagVars, staticVars, backtestVars>>

\* sellSideStrategy.PruneExistingOffers
SidePrune ==
    /\ spc = "preUpdated"
    /\ sidePruned' = SidePruneExistingOffers(sideOffers, strat.currentLevels)
    /\ spc' = "pruned"
    /\ UNCHANGED <<strat, sideOffers, sideGiven, sideUpdated, sideLevelOps, sideTick, sidePre>>
    /\ UNCHANGED <<filterVars, allOffers, composeVars, traderVars, twapVars, uuidVars, exitVars, dagVars, staticVars, backtestVars>>

\* sellSideStrategy.UpdateWithOps, on the offers PruneExistingOffers returned
\* (the offers parameter) or on the offers of the state (DataKeyOffers)
SideUpdate ==
    /\ spc = "pruned"
    /\ \E given \in {sidePruned.offers, sideOffers} :
          /\ sideGiven' = given
          /\ sideLevelOps' = [i \in DOMAIN strat.currentLevels |->
                                updateSellLevel(strat.side, given,
                                                strat.currentLevels, i,
                                                strat)]
          /\ sideUpdated' = SideUpdateWithOps(strat.side, given,
                                              strat.currentLevels, FALSE,
                                              strat)
    /\ spc' = "updated"
    /\ UNCHANGED <<strat, sideOffers, sidePruned, sideTick, sidePre>>
    /\ UNCHANGED <<filterVars, allOffers, composeVars, traderVars, twapVars, uuidVars, exitVars, dagVars, staticVars, backtestVars>>

\* the next tick: the venue has applied the prune and the update operations as
\* they were submitted, loadOffers loads and sorts the offers of the side, and
\* PreUpdate finds the balances and the levels it found before
SideNextTick ==
    /\ spc = "updated"
    /\ sideTick = 1
    /\ LET submitted == sidePruned.pruneOps \o sideUpdated.ops
           book == ApplyOps({sideOffers[i] : i \in DOMAIN sideOffers}, submitted,
                            Len(submitted), 2 * MaxOffers + 1).book
       IN sideOffers' \in SortedByPrice(book)
    /\ sideTick' = 2
    /\ spc' = "preUpdated"
    /\ UNCHANGED <<strat, sidePruned, sideGiven, sideUpdated, sideLevelOps, sidePre>>
    /\ UNCHANGED <<filterVars, allOffers, composeVars, traderVars, twapVars, uuidVars, exitVars, dagVars, staticVars, backtestVars>>

InitSide ==
    /\ BacktestOff
    /\ StaticOff
    /\ DagOff
    /\ FilterOff
    /\ ComposeOff
    /\ TraderOff
    /\ allOffers = NoOffers
    /\ TwapOff
    /\ UuidOff
    /\ ExitOff
    /\ SideAt("idle")
    /\ \E sd \in Sides, pt, at \in Tolerances :
          /\ strat = NewStrat(sd, pt, at)
          /\ sideOffers \in SideOfferLists(sd)

NextSide ==
    \/ SidePreUpdate
    \/ SidePrune
    \/ SideUpdate
    \/ SideNextTick

SpecSide == InitSide /\ [][NextSide]_vars

-----------------------------------------------------------------------------
(* sellSideStrategy: the properties *)

\* op is the Delete of the offer
DeletesOffer(op, offer) ==
    /\ op.kind = "mso"
    /\ op.offerID = offer.id
    /\ op.amount = DeleteAmount

\* C11: with N live offers and M levels, PruneExistingOffers returns exactly
\* N - M Deletes when M < N, one for each live offer from index M on, and the
\* first M offers unchanged; it returns no operation and every offer when
\* N <= M; and the UpdateWithOps that follows returns no operation that names a
\* live offer from index M on.
C11_PruneDeletesExactlyTheSurplus ==
    LET N == Len(sideOffers)
        M == Len(strat.currentLevels)
    IN /\ spc \in {"pruned", "updated"} =>
            /\ M < N =>
                  /\ Len(sidePruned.pruneOps) = N - M
                  /\ \A k \in 1..(N - M) :
                         DeletesOffer(sidePruned.pruneOps[k], sideOffers[M + k])
                  /\ sidePruned.offers = SubSeq(sideOffers, 1, M)
            /\ N <= M =>
                  /\ sidePruned.pruneOps = <<>>
                  /\ sidePruned.offers = sideOffers
       /\ spc = "updated" =>
            \A k \in DOMAIN sideUpdated.ops : \A j \in (M + 1)..N :
                sideUpdated.ops[k].offerID # sideOffers[j].id

\* C11 witness: UpdateWithOps has returned operations for one level, on the
\* offers of the state, of which there are two
C11_Witness ==
    /\ spc = "updated"
    /\ Len(strat.currentLevels) = 1
    /\ Len(sideOffers) = 2
    /\ sideGiven = sideOffers
    /\ Len(sidePruned.pruneOps) = 1
    /\ sideUpdated.ops # <<>>


\* x lies in [c(1 - t), c(1 + t)], both ends included
InBand(x, c, t) ==
    /\ c * (t.d - t.n) <= x * t.d
    /\ x * t.d <= c * (t.d + t.n)

\* the levels that have a live offer at their index
LevelsWithOffer == {i \in DOMAIN strat.currentLevels : i <= Len(sideGiven)}

\* the amount of level i in the units the side sells (on the buy side the
\* amount over the price), capped by the balance of the base asset
CappedAmountOf(i) ==
    LET l == strat.currentLevels[i]
        a == IF strat.side = "buy" THEN (2 * l.amount + l.price) \div (2 * l.price)
             ELSE l.amount
    IN IF strat.maxAssetBase < a THEN strat.maxAssetBase ELSE a

\* op is the Modify of the offer to the price and the amount
ModifiesOffer(op, offer, price, amount) ==
    /\ op.kind = "mso"
    /\ op.offerID = offer.id
    /\ op.price = price
    /\ op.amount = amount

\* C12 as stated: for a level of price P and amount A with a live offer at its
\* index, updateSellLevel returns no operation when the offer's price is in
\* [P(1-pt), P(1+pt)] and its amount in [A(1-at), A(1+at)], and otherwise one
\* Modify of that offer to P and A.
C12_ModifyExactlyOutsideLevelBand ==
    spc = "updated" =>
        \A i \in LevelsWithOffer :
            LET l == strat.currentLevels[i]
                o == sideGiven[i]
            IN IF /\ InBand(o.price, l.price, strat.priceTolerance)
                  /\ InBand(o.amount, l.amount, strat.amountTolerance)
               THEN sideLevelOps[i] = NilOp
               ELSE ModifiesOffer(sideLevelOps[i], o, l.price, l.amount)

\* C12 amended: the amount that is compared and set is the level's amount in
\* the units the side sells, capped by the balance of the base asset: no
\* operation when the offer's price is in [P(1-pt), P(1+pt)] and its amount in
\* [T(1-at), T(1+at)] for that amount T, and otherwise one Modify of that offer
\* to P and T.
C12_ModifyExactlyOutsideTargetBand ==
    spc = "updated" =>
        \A i \in LevelsWithOffer :
            LET l == strat.currentLevels[i]
                o == sideGiven[i]
            IN IF /\ InBand(o.price, l.price, strat.priceTolerance)
                  /\ InBand(o.amount, CappedAmountOf(i), strat.amountTolerance)
               THEN sideLevelOps[i] = NilOp
               ELSE ModifiesOffer(sideLevelOps[i], o, l.price, CappedAmountOf(i))

\* C12 witness: with a tolerance of a half, one live offer whose amount is not
\* the amount of its level lies in the band and is left alone, and another is
\* modified to an amount below the amount of its level
C12_Witness ==
    /\ spc = "updated"
    /\ \E i, j \in LevelsWithOffer :
          /\ sideLevelOps[i] = NilOp
          /\ sideGiven[i].amount # CappedAmountOf(i)
          /\ sideLevelOps[j] # NilOp
          /\ CappedAmountOf(j) < strat.currentLevels[j].amount


\* C13 as stated: when every level has a live offer at its index whose price
\* and amount are within the tolerances of the level's price and amount,
\* UpdateWithOps returns no operation and no top price.
C13_NoOpsWhenOffersMatchLevels ==
    (/\ spc = "updated"
     /\ \A i \in DOMAIN strat.currentLevels :
           /\ i \in LevelsWithOffer
           /\ InBand(sideGiven[i].price, strat.currentLevels[i].price,
                     strat.priceTolerance)
           /\ InBand(sideGiven[i].amount, strat.currentLevels[i].amount,
                     strat.amountTolerance))
        => /\ sideUpdated.ops = <<>>
           /\ sideUpdated.top = NilNumber

\* C13 amended: the amount a live offer has to match is the level's amount in
\* the units the side sells, capped by the balance of the base asset; when
\* every level has such a live offer at its index, UpdateWithOps returns no
\* operation and no top price.
C13_NoOpsWhenOffersMatchTargets ==
    (/\ spc = "updated"
     /\ \A i \in DOMAIN strat.currentLevels :
           /\ i \in LevelsWithOffer
           /\ InBand(sideGiven[i].price, strat.currentLevels[i].price,
                     strat.priceTolerance)
           /\ InBand(sideGiven[i].amount, CappedAmountOf(i),
                     strat.amountTolerance))
        => /\ sideUpdated.ops = <<>>
           /\ sideUpdated.top = NilNumber

\* C13 witness: two levels, each with a live offer in its band, one of them
\* off the price of its level, and UpdateWithOps has returned nothing
C13_Witness ==
    /\ spc = "updated"
    /\ Len(strat.currentLevels) = 2
    /\ \A i \in DOMAIN strat.currentLevels :
          /\ i \in LevelsWithOffer
          /\ InBand(sideGiven[i].price, strat.currentLevels[i].price,
                    strat.priceTolerance)
          /\ InBand(sideGiven[i].amount, CappedAmountOf(i),
                    strat.amountTolerance)
    /\ \E i \in DOMAIN strat.currentLevels :
          sideGiven[i].price # strat.currentLevels[i].price
    /\ sideUpdated.ops = <<>>


\* the levels that have no live offer at their index
VacantLevels == {i \in DOMAIN strat.currentLevels : i > Len(sideGiven)}

\* op is the Create of an offer of the side at the price with the amount
CreatesOffer(op, price, amount) ==
    /\ op.kind = "mso"
    /\ op.side = strat.side
    /\ op.offerID = 0
    /\ op.price = price
    /\ op.amount = amount

\* C14 as stated: for every level without a live offer at its index
\* UpdateWithOps returns exactly one Create at the level's price with the
\* level's amount capped by the balance of the base asset, and no Modify or
\* Delete; without live offers and with k levels it returns exactly k Creates.
C14_VacantLevelsCreatedAtLevelAmount ==
    spc = "updated" =>
        /\ \A i \in VacantLevels :
               LET l == strat.currentLevels[i]
               IN CreatesOffer(sideLevelOps[i], l.price,
                               IF strat.maxAssetBase < l.amount
                               THEN strat.maxAssetBase ELSE l.amount)
        /\ Len(sideUpdated.ops)
              = Cardinality({i \in DOMAIN sideLevelOps : sideLevelOps[i] # NilOp})
        /\ sideGiven = <<>> =>
               /\ Len(sideUpdated.ops) = Len(strat.currentLevels)
               /\ \A k \in DOMAIN sideUpdated.ops : sideUpdated.ops[k].offerID = 0

\* C14 amended: the amount of the Create is the level's amount in the units
\* the side sells (on the buy side the amount over the price), capped by the
\* balance of the base asset; the rest as stated.
C14_VacantLevelsCreatedAtTargetAmount ==
    spc = "updated" =>
        /\ \A i \in VacantLevels :
               CreatesOffer(sideLevelOps[i], strat.currentLevels[i].price,
                            CappedAmountOf(i))
        /\ Len(sideUpdated.ops)
              = Cardinality({i \in DOMAIN sideLevelOps : sideLevelOps[i] # NilOp})
        /\ sideGiven = <<>> =>
               /\ Len(sideUpdated.ops) = Len(strat.currentLevels)
               /\ \A k \in DOMAIN sideUpdated.ops : sideUpdated.ops[k].offerID = 0

\* C14 witness: two levels and no live offer, two Creates returned, one of
\* them with an amount the balance caps
C14_Witness ==
    /\ spc = "updated"
    /\ sideGiven = <<>>
    /\ Len(strat.currentLevels) = 2
    /\ Len(sideUpdated.ops) = 2
    /\ \E i \in VacantLevels : strat.maxAssetBase < strat.currentLevels[i].amount

\* C26: when the venue has applied the operations of a tick as submitted and
\* the levels and the balance are those of that tick, PruneExistingOffers and
\* UpdateWithOps of the next tick return no operation.
C26_NextTickEmitsNothing ==
    (sideTick = 2 /\ spc = "updated")
        => /\ sidePruned.pruneOps = <<>>
           /\ sideUpdated.ops = <<>>

\* the levels for which updateSellLevel returned an operation
LevelsWithOp == {i \in DOMAIN sideLevelOps : sideLevelOps[i] # NilOp}

\* C32: UpdateWithOps returns the operations of the levels in strictly
\* decreasing order of the level index, one for every level that has one and
\* no other, and returns as top price the lowest price of these operations,
\* and no top price when there is no operation.
C32_OpsWorstLevelFirstTopLowest ==
    (spc = "updated" /\ ~sideUpdated.err) =>
        /\ Len(sideUpdated.ops) = Cardinality(LevelsWithOp)
        /\ \A i \in LevelsWithOp :
               sideUpdated.ops[Cardinality({j \in LevelsWithOp : j > i}) + 1]
                   = sideLevelOps[i]
        /\ IF sideUpdated.ops = <<>>
           THEN sideUpdated.top = NilNumber
           ELSE /\ sideUpdated.top # NilNumber
                /\ sideUpdated.top.d = 1
                /\ \E k \in DOMAIN sideUpdated.ops :
                       sideUpdated.ops[k].price = sideUpdated.top.n
                /\ \A k \in DOMAIN sideUpdated.ops :
                       sideUpdated.top.n <= sideUpdated.ops[k].price

\* C32 witness: two levels with an operation each, the operation of the
\* second level first and the lower price, that of the first level, on top
C32_Witness ==
    /\ spc = "updated"
    /\ Len(sideUpdated.ops) = 2
    /\ sideUpdated.ops[1] = sideLevelOps[2]
    /\ sideUpdated.ops[2] = sideLevelOps[1]
    /\ sideUpdated.ops[2].price < sideUpdated.ops[1].price
    /\ sideUpdated.top = Number(sideUpdated.ops[2].price, 1)

\* C31: a PreUpdate that finds a base balance of zero, or the quote balance at
\* the trust limit, returns no error, has not called GetLevels and leaves no
\* level; the PruneExistingOffers that follows returns one Delete for every
\* live offer of the side, in their order, and no offer; the UpdateWithOps
\* that follows returns no operation.
C31_NoCapacityEmptiesTheSide ==
    (/\ sidePre # <<>>
     /\ sidePre[1].found
     /\ sidePre[1].maxAssetBase = 0 \/ sidePre[1].lineFull)
        => /\ spc \in {"preUpdated", "pruned", "updated"}
           /\ ~sidePre[1].err
           /\ ~sidePre[1].asked
           /\ strat.currentLevels = <<>>
           /\ spc \in {"pruned", "updated"} =>
                 /\ Len(sidePruned.pruneOps) = Len(sideOffers)
                 /\ \A k \in DOMAIN sideOffers :
                        DeletesOffer(sidePruned.pruneOps[k], sideOffers[k])
                 /\ sidePruned.offers = <<>>
           /\ spc = "updated" =>
                 /\ sideUpdated.ops = <<>>
                 /\ ~sideUpdated.err

\* C31 witness: the side has a balance and two live offers, its trust line is
\* full, and PreUpdate, PruneExistingOffers and UpdateWithOps have returned
C31_Witness ==
    /\ sidePre # <<>>
    /\ sidePre[1].found
    /\ sidePre[1].lineFull
    /\ sidePre[1].maxAssetBase > 0
    /\ sideTick = 1
    /\ spc = "updated"
    /\ Len(sideOffers) = 2
    /\ Len(sidePruned.pruneOps) = 2

-----------------------------------------------------------------------------
(* sellTwapLevelProvider; amounts are whole numbers of a unit of which
   PrintUnit make the smallest amount that %.8f prints *)

secondsInHour == 3600
secondsInDay == 86400

\* base units of the model in 0.00000001
PrintUnit == 2
\* volFilter.mustGetBaseAssetCapInBaseUnits()
DayBaseCapacity == 4
\* the GetLevels calls the model follows
MaxCalls == 3
\* the last day the model follows
MaxDay == 1

\* a float64 that is not a number
NaN == Number(0, 0)

\* the float64 values a fraction of the configuration is drawn from
Fractions ==
    {NaN, Number(0 - 1, 2), Number(0, 1), Number(1, 2), Number(1, 1), Number(3, 2)}

\* the configurations makeSellTwapLevelProvider is called with
TwapConfigs ==
    {TwapConfig(h, sz, c, r, m, f) :
        h \in {0, 12, 24, 25}, sz \in {0, 21600, 43200, 50000, 86400, 86401},
        c \in Fractions, r \in Fractions, m \in Fractions, f \in BOOLEAN}

\* x < 0.0 || x > 1.0, which is false when x is not a number
OutsideUnit(x) == x.d # 0 /\ (x.n < 0 \/ x.n > x.d)

\* a makeSellTwapLevelProvider that does not look at the fractions
ConfigErrorNoFractions(cfg) ==
    IF cfg.numHoursToSell <= 0 \/ cfg.numHoursToSell > 24
    THEN "numHoursToSell"
    ELSE IF \/ cfg.parentBucketSizeSeconds <= 0
            \/ cfg.parentBucketSizeSeconds > secondsInDay
    THEN "parentBucketSizeSeconds"
    ELSE IF secondsInDay % cfg.parentBucketSizeSeconds # 0
    THEN "parentBucketSizeSeconds does not divide secondsInDay"
    ELSE IF ~cfg.sellsBase
    THEN "dowFilter"
    ELSE "none"

\* makeSellTwapLevelProvider: the error it returns, "none" when it returns
\* the provider
ConfigError(cfg) ==
    IF cfg.numHoursToSell <= 0 \/ cfg.numHoursToSell > 24
    THEN "numHoursToSell"
    ELSE IF \/ cfg.parentBucketSizeSeconds <= 0
            \/ cfg.parentBucketSizeSeconds > secondsInDay
    THEN "parentBucketSizeSeconds"
    ELSE IF secondsInDay % cfg.parentBucketSizeSeconds # 0
    THEN "parentBucketSizeSeconds does not divide secondsInDay"
    ELSE IF OutsideUnit(cfg.distributeSurplusOverRemainingIntervalsPercentCeiling)
    THEN "distributeSurplusOverRemainingIntervalsPercentCeiling"
    ELSE IF OutsideUnit(cfg.exponentialSmoothingFactor)
    THEN "exponentialSmoothingFactor"
    ELSE IF OutsideUnit(cfg.minChildOrderSizePercentOfParent)
    THEN "minChildOrderSizePercentOfParent"
    ELSE IF ~cfg.sellsBase
    THEN "dowFilter"
    ELSE "none"

\* math.Ceil(a / b) for a >= 0 and b > 0
CeilDiv(a, b) == (a + b - 1) \div b

\* fmt.Sprintf("%.8f", x): x to the nearest amount that is printed
FormatFloat8(x) == (2 * x + PrintUnit) \div (2 * PrintUnit)

\* a UUID that leaves endTime out
UUIDWithoutEndTime(b) ==
    <<b.startTime, b.totalBuckets, b.totalBucketsToSell,
      FormatFloat8(b.minOrderSizeBase)>>

\* bucketInfo.UUID: the SHA-1 of the formatted values, taken to be different
\* for different formatted values
UUID(b) ==
    <<b.startTime, b.endTime, b.totalBuckets, b.totalBucketsToSell,
      FormatFloat8(b.minOrderSizeBase)>>

\* sellTwapLevelProvider.makeFirstBucketFrame at time t, with sold the
\* baseVol of today; endTime is the nanosecond before the second it names
makeFirstBucketFrame(cfg, t, sold, rID) ==
    LET size == cfg.parentBucketSizeSeconds
        bID == t.sec \div size
        totalBucketsToSell == CeilDiv(cfg.numHoursToSell * secondsInHour, size)
        baseCapacity == DayBaseCapacity \div totalBucketsToSell
    IN [ID |-> bID,
        startTime |-> [day |-> t.day, sec |-> bID * size],
        endTime |-> [day |-> t.day, sec |-> bID * size + size],
        totalBuckets |-> CeilDiv(secondsInDay - 1, size),
        totalBucketsToSell |-> totalBucketsToSell,
        dayBaseSoldStart |-> sold,
        totalBaseSurplusStart |-> 0,
        baseSurplusIncluded |-> 0,
        baseCapacity |-> baseCapacity,
        finite |-> TRUE,
        minOrderSizeBase |->
            (cfg.minChildOrderSizePercentOfParent.n * baseCapacity)
                \div cfg.minChildOrderSizePercentOfParent.d,
        dynamicValues |-> [isNew |-> TRUE, roundID |-> rID,
                           dayBaseSold |-> sold, baseSold |-> 0]]

\* sellTwapLevelProvider.updateExistingBucket
updateExistingBucket(active, sold, rID) ==
    [active EXCEPT !.dynamicValues =
        [isNew |-> FALSE, roundID |-> rID, dayBaseSold |-> sold,
         baseSold |-> sold - active.dayBaseSoldStart]]

\* sellTwapLevelProvider.firstDistributionOfBaseSurplus:
\* Sn * (r - 1) / (r^n - 1) with n = ceil(ceiling * totalRemainingBuckets);
\* finite: the divisor is not zero
firstDistributionOfBaseSurplus(cfg, Sn, totalRemainingBuckets) ==
    LET r == cfg.exponentialSmoothingFactor
        c == cfg.distributeSurplusOverRemainingIntervalsPercentCeiling
        n == CeilDiv(c.n * totalRemainingBuckets, c.d)
    IN IF n = 0 \/ r.n = r.d
       THEN [finite |-> FALSE, a |-> 0]
       ELSE [finite |-> TRUE,
             a |-> (Sn * (r.d - r.n) * r.d ^ (n - 1)) \div (r.d ^ n - r.n ^ n)]

\* a cutover that keeps the queried volume as the baseline of the new bucket
cutoverKeepsQueriedBaseline(cfg, active, newBucket) ==
    IF newBucket.ID # active.ID + 1
    THEN [err |-> TRUE, bucket |-> newBucket]
    ELSE LET totalBaseSurplusStart ==
                 newBucket.baseCapacity * newBucket.ID - newBucket.dayBaseSoldStart
             surplus == firstDistributionOfBaseSurplus(
                            cfg, totalBaseSurplusStart,
                            newBucket.totalBuckets - newBucket.ID)
         IN [err |-> FALSE,
             bucket |-> [newBucket EXCEPT
                 !.totalBaseSurplusStart = totalBaseSurplusStart,
                 !.baseSurplusIncluded = surplus.a,
                 !.baseCapacity = newBucket.baseCapacity + surplus.a,
                 !.finite = surplus.finite]]

\* sellTwapLevelProvider.cutoverToNewBucketSameDay
cutoverToNewBucketSameDay(cfg, active, newBucket) ==
    IF newBucket.ID # active.ID + 1
    THEN [err |-> TRUE, bucket |-> newBucket]
    ELSE LET thisBucketDayBaseSoldStart == active.dynamicValues.dayBaseSold
             thisBucketDayBaseSold == newBucket.dayBaseSoldStart
             totalBaseSurplusStart ==
                 newBucket.baseCapacity * newBucket.ID - thisBucketDayBaseSoldStart
             surplus == firstDistributionOfBaseSurplus(
                            cfg, totalBaseSurplusStart,
                            newBucket.totalBuckets - newBucket.ID)
         IN [err |-> FALSE,
             bucket |-> [newBucket EXCEPT
                 !.dayBaseSoldStart = thisBucketDayBaseSoldStart,
                 !.dynamicValues =
                     [isNew |-> TRUE, roundID |-> newBucket.dynamicValues.roundID,
                      dayBaseSold |-> thisBucketDayBaseSold,
                      baseSold |-> thisBucketDayBaseSold - thisBucketDayBaseSoldStart],
                 !.totalBaseSurplusStart = totalBaseSurplusStart,
                 !.baseSurplusIncluded = surplus.a,
                 !.baseCapacity = newBucket.baseCapacity + surplus.a,
                 !.finite = surplus.finite]]

\* sellTwapLevelProvider.makeBucketInfo
makeBucketInfo(cfg, t, sold, rID) ==
    IF activeBucket = <<>>
    THEN [err |-> FALSE, bucket |-> makeFirstBucketFrame(cfg, t, sold, rID)]
    ELSE IF t.sec \div cfg.parentBucketSizeSeconds = activeBucket[1].ID
    THEN [err |-> FALSE, bucket |-> updateExistingBucket(activeBucket[1], sold, rID)]
    ELSE IF makeFirstBucketFrame(cfg, t, sold, rID).ID = 0
    THEN [err |-> FALSE, bucket |-> makeFirstBucketFrame(cfg, t, sold, rID)]
    ELSE cutoverToNewBucketSameDay(cfg, activeBucket[1],
                                   makeFirstBucketFrame(cfg, t, sold, rID))

\* a makeRoundID that starts again at 0 with every bucket
makeRoundIDOfBucket ==
    IF previousRoundID = <<>> \/ activeBucket = <<>>
            \/ now.sec \div twapConfig.parentBucketSizeSeconds # activeBucket[1].ID
    THEN 0 ELSE previousRoundID[1] + 1

\* sellTwapLevelProvider.makeRoundID
makeRoundID ==
    IF previousRoundID = <<>> THEN 0 ELSE previousRoundID[1] + 1

\* a baseRemaining that forgets what is sold
baseRemainingOfNothingSold(b) == b.baseCapacity

\* bucketInfo.baseRemaining
baseRemaining(b) == b.baseCapacity - b.dynamicValues.baseSold

\* the values p.random.Float64() returns in the model
RandomFloats == {Number(0, 1), Number(1, 2)}

\* a size that is drawn at random whatever remains
sizeBaseCappedAlwaysRandom(b, random) ==
    b.minOrderSizeBase
        + (random.n * (baseRemaining(b) - b.minOrderSizeBase)) \div random.d

\* makeRoundInfo: sizeBaseCapped
sizeBaseCapped(b, random) ==
    IF baseRemaining(b) <= b.minOrderSizeBase
    THEN baseRemaining(b)
    ELSE b.minOrderSizeBase
            + (random.n * (baseRemaining(b) - b.minOrderSizeBase)) \div random.d

\* sellTwapLevelProvider.makeRoundInfo, with what the bucket had when the
\* round was made
makeRoundInfo(rID, t, b, random) ==
    [ID |-> rID, bucketID |-> b.ID, bucketUUID |-> UUID(b), now |-> t,
     sizeBaseCapped |-> IF b.finite THEN sizeBaseCapped(b, random) ELSE 0,
     finite |-> b.finite,
     baseRemaining |-> baseRemaining(b), baseSold |-> b.dynamicValues.baseSold,
     baseCapacity |-> b.baseCapacity, minOrderSizeBase |-> b.minOrderSizeBase]

\* makeSellTwapLevelProvider
Construct ==
    /\ twpc = "new"
    /\ twpc' = IF ConfigError(twapConfig) = "none" THEN "constructed" ELSE "rejected"
    /\ UNCHANGED <<twapConfig, activeBucket, previousRoundID, now, soldToday,
                   resting1, rounds, twapCalls,
                   twapErr>>
    /\ UNCHANGED <<filterVars, allOffers, composeVars, traderVars, sideVars,
                   uuidVars, exitVars, dagVars, staticVars, backtestVars>>

\* a GetLevels that saves the round ID before it knows that the call succeeds
GetLevelsSavingRoundOnFailure ==
    /\ twpc = "constructed"
    /\ twapCalls < MaxCalls
    /\ twapConfig.distributeSurplusOverRemainingIntervalsPercentCeiling # NaN
    /\ twapConfig.exponentialSmoothingFactor # NaN
    /\ twapConfig.minChildOrderSizePercentOfParent # NaN
    /\ twapCalls' = twapCalls + 1
    /\ \E fail \in {"none", "dailyValuesByDate", "GetPrice"}, random \in RandomFloats :
          LET rID == makeRoundID
              made == makeBucketInfo(twapConfig, now, soldToday, rID)
              round == makeRoundInfo(rID, now, made.bucket, random)
          IN IF fail = "dailyValuesByDate" \/ made.err
             THEN /\ twapErr' = "unable to make bucketInfo"
                  /\ previousRoundID' = <<rID>>
                  /\ UNCHANGED <<activeBucket, rounds, resting1>>
             ELSE IF fail = "GetPrice"
             THEN /\ twapErr' = "unable to make roundInfo"
                  /\ previousRoundID' = <<rID>>
                  /\ UNCHANGED <<activeBucket, rounds, resting1>>
             ELSE /\ twapErr' = "none"
                  /\ activeBucket' = <<made.bucket>>
                  /\ previousRoundID' = <<round.ID>>
                  /\ rounds' = Append(rounds, round)
                  /\ resting1' = IF round.sizeBaseCapped > 0
                                 THEN round.sizeBaseCapped ELSE 0
    /\ UNCHANGED <<twpc, twapConfig, now, soldToday>>
    /\ UNCHANGED <<filterVars, allOffers, composeVars, traderVars, sideVars,
                   uuidVars, exitVars, dagVars, staticVars, backtestVars>>

\* sellTwapLevelProvider.GetLevels, followed for the providers whose
\* fractions are numbers; fail: the call that returns an error
GetLevels ==
    /\ twpc = "constructed"
    /\ twapCalls < MaxCalls
    /\ twapConfig.distributeSurplusOverRemainingIntervalsPercentCeiling # NaN
    /\ twapConfig.exponentialSmoothingFactor # NaN
    /\ twapConfig.minChildOrderSizePercentOfParent # NaN
    /\ twapCalls' = twapCalls + 1
    /\ \E fail \in {"none", "dailyValuesByDate", "GetPrice"}, random \in RandomFloats :
          LET rID == makeRoundID
              made == makeBucketInfo(twapConfig, now, soldToday, rID)
              round == makeRoundInfo(rID, now, made.bucket, random)
          IN IF fail = "dailyValuesByDate" \/ made.err
             THEN /\ twapErr' = "unable to make bucketInfo"
                  /\ UNCHANGED <<activeBucket, previousRoundID, rounds, resting1>>
             ELSE IF fail = "GetPrice"
             THEN /\ twapErr' = "unable to make roundInfo"
                  /\ UNCHANGED <<activeBucket, previousRoundID, rounds, resting1>>
             ELSE /\ twapErr' = "none"
                  /\ activeBucket' = <<made.bucket>>
                  /\ previousRoundID' = <<round.ID>>
                  /\ rounds' = Append(rounds, round)
                  /\ resting1' = IF round.sizeBaseCapped > 0
                                 THEN round.sizeBaseCapped ELSE 0
    /\ UNCHANGED <<twpc, twapConfig, now, soldToday>>
    /\ UNCHANGED <<filterVars, allOffers, composeVars, traderVars, sideVars,
                   uuidVars, exitVars, dagVars, staticVars, backtestVars>>

\* time passes: later the same day, or into a later day, whose sold volume
\* starts at zero
AdvanceTime ==
    /\ twpc = "constructed"
    /\ \E d \in 0..MaxDay, sc \in {0, secondsInDay \div 4, secondsInDay \div 2} :
          /\ d > now.day \/ (d = now.day /\ sc > now.sec)
          /\ now' = [day |-> d, sec |-> sc]
          /\ soldToday' = IF d > now.day THEN 0 ELSE soldToday
    /\ UNCHANGED <<twpc, twapConfig, activeBucket, previousRoundID, resting1,
                   rounds, twapCalls,
                   twapErr>>
    /\ UNCHANGED <<filterVars, allOffers, composeVars, traderVars, sideVars,
                   uuidVars, exitVars, dagVars, staticVars, backtestVars>>

\* a part of the level that rests is sold and enters the trades database
Fill ==
    /\ twpc = "constructed"
    /\ \E f \in 1..resting1 :
          /\ soldToday' = soldToday + f
          /\ resting1' = resting1 - f
    /\ UNCHANGED <<twpc, twapConfig, activeBucket, previousRoundID, now, rounds,
                   twapCalls,
                   twapErr>>
    /\ UNCHANGED <<filterVars, allOffers, composeVars, traderVars, sideVars,
                   uuidVars, exitVars, dagVars, staticVars, backtestVars>>

InitTwap ==
    /\ BacktestOff
    /\ StaticOff
    /\ DagOff
    /\ FilterOff
    /\ ComposeOff
    /\ TraderOff
    /\ allOffers = NoOffers
    /\ SideOff
    /\ UuidOff
    /\ ExitOff
    /\ TwapAt("new")
    /\ twapConfig \in TwapConfigs

NextTwap ==
    \/ Construct
    \/ GetLevels
    \/ AdvanceTime
    \/ Fill

SpecTwap == InitTwap /\ [][NextTwap]_vars

-----------------------------------------------------------------------------
(* sellTwapLevelProvider: the properties *)

\* the rounds of the calls that fell into the interval of round k, up to k
RoundsOfBucketUpTo(k) ==
    {j \in 1..k : /\ rounds[j].now.day = rounds[k].now.day
                  /\ rounds[j].bucketID = rounds[k].bucketID}

\* the sum of sizeBaseCapped over the rounds in J
RECURSIVE SizeSum(_)
SizeSum(J) ==
    IF J = {} THEN 0
    ELSE LET j == CHOOSE x \in J : TRUE
         IN rounds[j].sizeBaseCapped + SizeSum(J \ {j})

\* C15 as stated: over the GetLevels calls that fall into one bucket the sum
\* of sizeBaseCapped never exceeds the baseCapacity of the bucket by more than
\* minOrderSizeBase.
C15_SizesOfBucketWithinCapacity ==
    \A k \in DOMAIN rounds :
        rounds[k].finite =>
            SizeSum(RoundsOfBucketUpTo(k))
                <= rounds[k].baseCapacity + rounds[k].minOrderSizeBase

\* C15 amended: in every round what is sold in the bucket so far plus
\* sizeBaseCapped does not exceed the baseCapacity of the bucket, so that the
\* sum of sizeBaseCapped over the calls of one bucket stays within baseCapacity
\* when what was sold is what the earlier rounds of the bucket offered.
C15_SoldPlusSizeWithinCapacity ==
    \A k \in DOMAIN rounds :
        rounds[k].finite =>
            /\ rounds[k].baseSold + rounds[k].sizeBaseCapped <= rounds[k].baseCapacity
            /\ rounds[k].baseSold = SizeSum(RoundsOfBucketUpTo(k) \ {k})
                  => SizeSum(RoundsOfBucketUpTo(k)) <= rounds[k].baseCapacity

\* C15 witness: three rounds in one bucket, a part of the first sold before
\* the second; their sizes add up to more than baseCapacity and
\* minOrderSizeBase
C15_Witness ==
    /\ Len(rounds) = 3
    /\ RoundsOfBucketUpTo(3) = {1, 2, 3}
    /\ rounds[2].baseSold > 0
    /\ rounds[3].finite
    /\ SizeSum({1, 2, 3}) > rounds[3].baseCapacity + rounds[3].minOrderSizeBase


\* C16: every successful GetLevels makes one round, the one the provider
\* keeps; its size s satisfies minOrderSizeBase <= s <= remaining when the
\* remaining capacity (baseCapacity - baseSold) is above minOrderSizeBase,
\* and is the whole remaining capacity when that is at most minOrderSizeBase.
C16_RoundSizedWithinRemaining ==
    /\ \A k \in DOMAIN rounds :
          rounds[k].finite =>
              LET remaining == rounds[k].baseCapacity - rounds[k].baseSold
                  size == rounds[k].sizeBaseCapped
              IN IF remaining > rounds[k].minOrderSizeBase
                 THEN rounds[k].minOrderSizeBase <= size /\ size <= remaining
                 ELSE size = remaining
    /\ rounds # <<>> =>
          /\ activeBucket # <<>>
          /\ activeBucket[1].dynamicValues.roundID = rounds[Len(rounds)].ID
    /\ rounds = <<>> => activeBucket = <<>>

\* C16 witness: one round above minOrderSizeBase and below what remained, and
\* a later round that takes a remainder that is not above minOrderSizeBase
C16_Witness ==
    \E j, k \in DOMAIN rounds :
        /\ j < k
        /\ rounds[j].finite /\ rounds[k].finite
        /\ rounds[j].sizeBaseCapped > rounds[j].minOrderSizeBase
        /\ rounds[j].sizeBaseCapped < rounds[j].baseCapacity - rounds[j].baseSold
        /\ rounds[k].baseSold > 0
        /\ rounds[k].baseCapacity - rounds[k].baseSold <= rounds[k].minOrderSizeBase
        /\ rounds[k].sizeBaseCapped > 0

\* C17: the IDs of the rounds of the successful calls are 0, 1, 2, ... in call
\* order, whatever buckets and days the calls fall into and however many
\* calls failed in between.
C17_RoundIDsGapFree ==
    /\ \A k \in DOMAIN rounds : rounds[k].ID = k - 1
    /\ previousRoundID = IF rounds = <<>> THEN <<>> ELSE <<Len(rounds) - 1>>

\* C17 witness: two rounds in different buckets of different days, and a
\* failed call
C17_Witness ==
    /\ Len(rounds) = 2
    /\ twapCalls = 3
    /\ rounds[1].now.day # rounds[2].now.day
    /\ rounds[1].bucketID # rounds[2].bucketID


\* x is a number in [0, 1]
InUnit(x) == x.d > 0 /\ 0 <= x.n /\ x.n <= x.d

RECURSIVE GeometricSum(_, _)
GeometricSum(r, n) ==
    IF n = 0 THEN 0 ELSE r.d ^ (n - 1) + r.n * GeometricSum(r, n - 1)

\* the terms the surplus is spread over: ceil(ceiling * remaining buckets)
SurplusTerms(b) ==
    LET c == twapConfig.distributeSurplusOverRemainingIntervalsPercentCeiling
    IN CeilDiv(c.n * (b.totalBuckets - b.ID), c.d)

\* a is the first term of the geometric series of n terms with ratio r that
\* adds up to Sn, to the whole unit below
IsFirstTerm(a, Sn, r, n) ==
    /\ a * GeometricSum(r, n) <= Sn * r.d ^ (n - 1)
    /\ Sn * r.d ^ (n - 1) < (a + 1) * GeometricSum(r, n)

\* C28: a GetLevels call that returns levels in another bucket of the day of
\* the call before it makes a bucket whose dayBaseSoldStart is the dayBaseSold
\* the previous bucket saw last, whose baseSold is the volume queried now less
\* that baseline, whose surplus is the average bucket capacity times the
\* number of previous buckets less that baseline, and whose capacity is the
\* average bucket capacity plus the first term of the geometric allocation of
\* that surplus (where that term is a number).
C28_CutoverCarriesBaselineAndSurplus ==
    [][(/\ rounds # <<>>
        /\ rounds' # rounds
        /\ rounds[Len(rounds)].now.day = now.day
        /\ now.sec \div twapConfig.parentBucketSizeSeconds # activeBucket[1].ID)
       => LET previous == activeBucket[1]
              new == activeBucket'[1]
              baseline == previous.dynamicValues.dayBaseSold
              average == DayBaseCapacity \div new.totalBucketsToSell
              previousBuckets == now.sec \div twapConfig.parentBucketSizeSeconds
              surplus == average * previousBuckets - baseline
              r == twapConfig.exponentialSmoothingFactor
              n == SurplusTerms(new)
          IN /\ new.ID = previousBuckets
             /\ new.dayBaseSoldStart = baseline
             /\ new.dynamicValues.dayBaseSold = soldToday
             /\ new.dynamicValues.baseSold = soldToday - baseline
             /\ new.dynamicValues.isNew
             /\ new.totalBaseSurplusStart = surplus
             /\ new.finite <=> (n > 0 /\ r.n # r.d)
             /\ new.finite =>
                    /\ IsFirstTerm(new.baseSurplusIncluded, surplus, r, n)
                    /\ new.baseCapacity = average + new.baseSurplusIncluded
      ]_vars

\* C28 witness: the second bucket of a day of four, made after a part of the
\* first bucket's capacity was sold; the surplus that is left is spread over
\* two or more terms and its first term is not zero
C28_Witness ==
    /\ Len(rounds) >= 2
    /\ rounds[Len(rounds) - 1].now.day = rounds[Len(rounds)].now.day
    /\ rounds[Len(rounds) - 1].bucketID + 1 = rounds[Len(rounds)].bucketID
    /\ activeBucket[1].ID = rounds[Len(rounds)].bucketID
    /\ activeBucket[1].dynamicValues.isNew
    /\ activeBucket[1].dayBaseSoldStart > 0
    /\ activeBucket[1].finite
    /\ SurplusTerms(activeBucket[1]) >= 2
    /\ activeBucket[1].baseSurplusIncluded # 0
    /\ activeBucket[1].baseSurplusIncluded # activeBucket[1].totalBaseSurplusStart

\* C27: after a GetLevels call that returns levels at time now, the active
\* bucket is the bucket whose interval contains now: it starts on the day of
\* the call, at or before the second of the call, ends after it, and has the
\* ID floor(seconds elapsed today / parentBucketSizeSeconds).
C27_ActiveBucketContainsNow ==
    rounds # <<>> =>
        LET t == rounds[Len(rounds)].now
            b == activeBucket[1]
        IN /\ b.ID = t.sec \div twapConfig.parentBucketSizeSeconds
           /\ b.startTime.day = t.day
           /\ b.startTime.sec <= t.sec
           /\ t.sec < b.endTime.sec

\* C36: a GetLevels call that fails (daily values, cutover, or price feed)
\* leaves activeBucket and previousRoundID as they were, so makeRoundID gives
\* the next call the ID it gave the failed one; a call that returns levels
\* uses that ID.
C36_FailedCallKeepsBucketAndRound ==
    [][twapCalls' = twapCalls + 1 =>
          IF twapErr' # "none"
          THEN /\ activeBucket' = activeBucket
               /\ previousRoundID' = previousRoundID
               /\ makeRoundID' = makeRoundID
          ELSE rounds'[Len(rounds')].ID = makeRoundID
      ]_vars

\* C36 witness: a call failed at the bucket after two calls that returned
\* levels, so there were a bucket and a round ID to keep.
C36_Witness ==
    /\ twapErr = "unable to make bucketInfo"
    /\ Len(rounds) = 2
    /\ activeBucket # <<>>
    /\ previousRoundID = <<1>>

\* C37: for every provider that makeSellTwapLevelProvider accepts, the surplus
\* share that firstDistributionOfBaseSurplus computes for a new bucket is a
\* finite number: the denominator r^n - 1 is not zero.
C37_SurplusShareFinite ==
    activeBucket # <<>> => activeBucket[1].finite

\* C38: when the last call that returned levels was the first one of its
\* calendar day, the active bucket is a fresh one of that day: it is new, its
\* baseline is the sold volume that the call queried, and it carries no
\* surplus, in whichever bucket of the day the call fell.
C38_NewDayStartsFreshBucket ==
    (Len(rounds) >= 2 /\ rounds[Len(rounds) - 1].now.day < rounds[Len(rounds)].now.day)
        => LET b == activeBucket[1] IN
           /\ b.startTime.day = rounds[Len(rounds)].now.day
           /\ b.dynamicValues.isNew
           /\ b.dayBaseSoldStart = b.dynamicValues.dayBaseSold
           /\ b.totalBaseSurplusStart = 0
           /\ b.baseSurplusIncluded = 0

-----------------------------------------------------------------------------
(* bucketInfo.UUID on two buckets *)

\* the values of the five fields UUID reads
UuidBuckets ==
    LET times == {[day |-> 0, sec |-> sc] : sc \in {0, secondsInDay \div 2}}
    IN [startTime : times, endTime : times, totalBuckets : 1..2,
        totalBucketsToSell : 1..2, minOrderSizeBase : 0..PrintUnit]

\* b.UUID() of each bucket
ComputeUUIDs ==
    /\ uuidPair = <<>>
    /\ uuidPair' = <<UUID(bucketPair[1]), UUID(bucketPair[2])>>
    /\ UNCHANGED bucketPair
    /\ UNCHANGED <<filterVars, allOffers, composeVars, traderVars, sideVars,
                   twapVars, exitVars, dagVars, staticVars, backtestVars>>

InitUuid ==
    /\ BacktestOff
    /\ StaticOff
    /\ DagOff
    /\ FilterOff
    /\ ComposeOff
    /\ TraderOff
    /\ allOffers = NoOffers
    /\ SideOff
    /\ TwapOff
    /\ ExitOff
    /\ bucketPair \in UuidBuckets \X UuidBuckets
    /\ uuidPair = <<>>

NextUuid == ComputeUUIDs

SpecUuid == InitUuid /\ [][NextUuid]_vars

-----------------------------------------------------------------------------
(* Trader *)

\* the number of ticks the model follows
MaxTicks == 2
\* the most offers of one side that rest when the bot starts
MaxInitOffers == 2
\* the longest history update is entered with
MaxInitHistory == 1

\* an entry of the history of the tick: the stage and the number of
\* operations it made or submitted
Stage(name, n) == [stage |-> name, n |-> n]

\* a sdex.SubmitOps that is called for an empty list too
SubmitNeededAlways(operations) == TRUE

\* if len(ops) > 0 { e = t.sdex.SubmitOps(ops) ... }
SubmitNeeded(operations) == Len(operations) > 0

\* Trader.pruneHistory
pruneHistory(h) ==
    IF MaxHistory > Len(h) THEN SubSeq(h, 1, MaxHistory) ELSE h

\* Trader.deleteAllOffers, with the venue at book and id, as call number
\* calls + 1 of the tick
deleteAllOffers(book, id, calls) ==
    LET dOps == DeleteAllOffers(Transient.SellingAOffers)
                \o DeleteAllOffers(Transient.BuyingAOffers)
    IN /\ Transient' = NoOffers
       /\ deleteAllCalls' = calls + 1
       /\ nextID' = id
       /\ IF SubmitNeeded(dOps)
          THEN \E n \in SubmitOutcomes(dOps) :
                 /\ resting' = ApplyOps(book, dOps, n, id).book
                 /\ deleteSubmit' = IF n = Len(dOps) THEN "ok" ELSE "failed"
          ELSE /\ resting' = book
               /\ deleteSubmit' = "none"

\* if e != nil { t.deleteAllOffers(); return }
FailStage(name, book, id, calls) ==
    /\ failedStage' = name
    /\ deleteAllOffers(book, id, calls)
    /\ pendingOps' = <<>>
    /\ tpc' = "Sleeping"

\* update, entered with an empty history: t.state.History[0] is out of range
\* and the process ends
UpdatePanics ==
    /\ tpc = "Idle"
    /\ tick < MaxTicks
    /\ Len(History) = 0
    /\ tick' = tick + 1
    /\ startResting' = {o.id : o \in resting}
    /\ stages' = <<>>
    /\ failedStage' = "none"
    /\ deleteAllCalls' = 0
    /\ deleteSubmit' = "none"
    /\ tpc' = "Panicked"
    /\ UNCHANGED <<History, Transient, currentLevels, pendingOps, resting, nextID>>
    /\ UNCHANGED <<filterVars, allOffers, composeVars, sideVars, twapVars, uuidVars, exitVars, dagVars, staticVars, backtestVars>>

\* the next call of update: History = append([]Snapshot{}, History...) and
\* the starting snapshot
StartSnapshot ==
    /\ tpc = "Idle"
    /\ tick < MaxTicks
    /\ Len(History) > 0
    /\ tick' = tick + 1
    /\ startResting' = {o.id : o \in resting}
    /\ stages' = <<Stage("StartSnapshot", 0)>>
    /\ \/ /\ allOffers' \in LoadOffers(resting)
          /\ History' = [History EXCEPT ![1].Start = TRUE]
          /\ tpc' = "SnapshotLoaded"
          /\ failedStage' = "none"
          /\ deleteAllCalls' = 0
          /\ deleteSubmit' = "none"
          /\ UNCHANGED <<Transient, pendingOps, resting, nextID>>
       \/ /\ FailStage("StartSnapshot", resting, nextID, 0)
          /\ UNCHANGED <<allOffers, History>>
    /\ UNCHANGED <<currentLevels>>
    /\ UNCHANGED <<filterVars, composeVars, sideVars, twapVars, uuidVars, exitVars, dagVars, staticVars, backtestVars>>

\* t.strat.PreUpdate: each side loads its levels; a side that fails keeps its
\* levels or is left without
PreUpdate ==
    /\ tpc = "SnapshotLoaded"
    /\ stages' = Append(stages, Stage("PreUpdate", 0))
    /\ \E e1, e2 \in BOOLEAN, lb, ls \in LevelLists :
       /\ e1 => lb \in {currentLevels.buy, <<>>}
       /\ e2 => ls \in {currentLevels.sell, <<>>}
       /\ currentLevels' = [buy |-> lb, sell |-> ls]
       /\ IF ComposePreUpdate(e1, e2).err = "none"
          THEN /\ tpc' = "PreUpdated"
               /\ UNCHANGED <<Transient, pendingOps, resting, nextID, failedStage,
                              deleteAllCalls, deleteSubmit>>
          ELSE FailStage("PreUpdate", resting, nextID, deleteAllCalls)
    /\ UNCHANGED <<History, tick, startResting>>
    /\ UNCHANGED <<filterVars, allOffers, composeVars, sideVars, twapVars, uuidVars, exitVars, dagVars, staticVars, backtestVars>>

\* pruneOps, Transient.BuyingAOffers, Transient.SellingAOffers =
\*     t.strat.PruneExistingOffers(t.state)
PruneExistingOffers ==
    /\ tpc = "PreUpdated"
    /\ LET p == ComposePruneExistingOffers(allOffers, currentLevels) IN
       /\ pendingOps' = p.pruneOps
       /\ Transient' = [SellingAOffers |-> p.SellingAOffers,
                        BuyingAOffers |-> p.BuyingAOffers]
       /\ stages' = Append(stages, Stage("PruneExistingOffers", Len(p.pruneOps)))
       /\ tpc' = IF SubmitNeeded(p.pruneOps) THEN "PruneOpsMade" ELSE "Pruned"
    /\ UNCHANGED <<History, currentLevels, resting, nextID, tick, failedStage,
                   deleteAllCalls, deleteSubmit, startResting>>
    /\ UNCHANGED <<filterVars, allOffers, composeVars, sideVars, twapVars, uuidVars, exitVars, dagVars, staticVars, backtestVars>>

\* e = t.sdex.SubmitOps(pendingOps), for the prune operations (next: "Pruned")
\* and for the update operations (next: "Submitted")
Submit(name, next) ==
    /\ stages' = Append(stages, Stage(name, Len(pendingOps)))
    /\ \E n \in SubmitOutcomes(pendingOps) :
       LET v == ApplyOps(resting, pendingOps, n, nextID) IN
       IF n = Len(pendingOps)
       THEN /\ resting' = v.book
            /\ nextID' = v.id
            /\ pendingOps' = <<>>
            /\ tpc' = next
            /\ UNCHANGED <<Transient, failedStage, deleteAllCalls, deleteSubmit>>
       ELSE FailStage(name, v.book, v.id, deleteAllCalls)
    /\ UNCHANGED <<History, currentLevels, tick, startResting>>
    /\ UNCHANGED <<filterVars, allOffers, composeVars, sideVars, twapVars, uuidVars, exitVars, dagVars, staticVars, backtestVars>>

\* the submission of the prune operations
SubmitPruneOps ==
    /\ tpc = "PruneOpsMade"
    /\ Submit("SubmitPruneOps", "Pruned")

\* t.sdex.ResetCachedXlmExposure() and t.strat.UpdateWithOps
UpdateWithOps ==
    /\ tpc = "Pruned"
    /\ \E f1, f2 \in BOOLEAN :
       LET buyRes == SideUpdateWithOps("buy", allOffers.BuyingAOffers,
                                       currentLevels.buy, f1,
                                       TraderSideConfig)
           sellRes == SideUpdateWithOps("sell", allOffers.SellingAOffers,
                                        currentLevels.sell, f2,
                                        TraderSideConfig)
           res == ComposeUpdateWithOps(buyRes, sellRes, allOffers)
       IN /\ stages' = stages \o <<Stage("ResetCachedXlmExposure", 0),
                                   Stage("UpdateWithOps", Len(res.ops))>>
          /\ IF res.err = "none"
             THEN /\ pendingOps' = res.ops
                  /\ tpc' = IF SubmitNeeded(res.ops) THEN "Updated" ELSE "Submitted"
                  /\ UNCHANGED <<Transient, resting, nextID, failedStage,
                                 deleteAllCalls, deleteSubmit>>
             ELSE FailStage("UpdateWithOps", resting, nextID, deleteAllCalls)
    /\ UNCHANGED <<History, currentLevels, tick, startResting>>
    /\ UNCHANGED <<filterVars, allOffers, composeVars, sideVars, twapVars, uuidVars, exitVars, dagVars, staticVars, backtestVars>>

\* the submission of the update operations
SubmitOps ==
    /\ tpc = "Updated"
    /\ Submit("SubmitOps", "Submitted")

\* the end snapshot, loaded into the same datum as the starting one
EndSnapshot ==
    /\ tpc = "Submitted"
    /\ stages' = Append(stages, Stage("EndSnapshot", 0))
    /\ \/ /\ allOffers' \in LoadOffers(resting)
          /\ History' = [History EXCEPT ![1].End = TRUE]
          /\ tpc' = "EndSnapshotLoaded"
          /\ UNCHANGED <<Transient, pendingOps, resting, nextID, failedStage,
                         deleteAllCalls, deleteSubmit>>
       \/ /\ FailStage("EndSnapshot", resting, nextID, deleteAllCalls)
          /\ UNCHANGED <<allOffers, History>>
    /\ UNCHANGED <<currentLevels, tick, startResting>>
    /\ UNCHANGED <<filterVars, composeVars, sideVars, twapVars, uuidVars, exitVars, dagVars, staticVars, backtestVars>>

\* t.strat.PostUpdate, which a Strategy may fail, and t.pruneHistory()
PostUpdate ==
    /\ tpc = "EndSnapshotLoaded"
    /\ stages' = Append(stages, Stage("PostUpdate", 0))
    /\ \/ /\ History' = pruneHistory(History)
          /\ tpc' = "Sleeping"
          /\ UNCHANGED <<Transient, pendingOps, resting, nextID, failedStage,
                         deleteAllCalls, deleteSubmit>>
       \/ /\ FailStage("PostUpdate", resting, nextID, deleteAllCalls)
          /\ UNCHANGED <<History>>
    /\ UNCHANGED <<currentLevels, tick, startResting>>
    /\ UNCHANGED <<filterVars, allOffers, composeVars, sideVars, twapVars, uuidVars, exitVars, dagVars, staticVars, backtestVars>>

\* a loop that goes on to the next update while this one is in progress
SleepAnytime ==
    /\ tpc \notin {"off", "Idle", "Panicked"}
    /\ tpc' = "Idle"
    /\ UNCHANGED <<History, Transient, currentLevels, pendingOps, resting, nextID,
                   tick, stages, failedStage, deleteAllCalls, deleteSubmit,
                   startResting>>
    /\ UNCHANGED <<filterVars, allOffers, composeVars, sideVars, twapVars, uuidVars, exitVars, dagVars, staticVars, backtestVars>>

\* update has returned: time.Sleep(tickIntervalSeconds), then the next
\* iteration of the loop of Start
Sleep ==
    /\ tpc = "Sleeping"
    /\ tpc' = "Idle"
    /\ UNCHANGED <<History, Transient, currentLevels, pendingOps, resting, nextID,
                   tick, stages, failedStage, deleteAllCalls, deleteSubmit,
                   startResting>>
    /\ UNCHANGED <<filterVars, allOffers, composeVars, sideVars, twapVars, uuidVars, exitVars, dagVars, staticVars, backtestVars>>

\* the offers that rest when the bot starts: sell offers, then buy offers
InitialBooks ==
    {{Offer("sell", i, ps[i], FullAmount) : i \in DOMAIN ps}
       \cup {Offer("buy", Len(ps) + i, pb[i], FullAmount) : i \in DOMAIN pb} :
         ps \in SeqsUpTo(Prices, MaxInitOffers), pb \in SeqsUpTo(Prices, MaxInitOffers)}

\* the state when Start calls update for the first time. Start leaves the
\* history empty; the longer histories are those a caller of update may hold.
Init ==
    /\ BacktestOff
    /\ StaticOff
    /\ DagOff
    /\ FilterOff
    /\ ComposeOff
    /\ SideOff
    /\ TwapOff
    /\ UuidOff
    /\ ExitOff
    /\ allOffers = NoOffers
    /\ tpc = "Idle"
    /\ History \in {[i \in 1..k |-> [Start |-> FALSE, End |-> FALSE]] :
                      k \in 0..MaxInitHistory}
    /\ Transient = NoOffers
    /\ currentLevels = [buy |-> <<>>, sell |-> <<>>]
    /\ pendingOps = <<>>
    /\ resting \in InitialBooks
    /\ nextID = Cardinality(resting) + 1
    /\ tick = 0
    /\ startResting = {}
    /\ NewTick

Next ==
    \/ UpdatePanics
    \/ StartSnapshot
    \/ PreUpdate
    \/ PruneExistingOffers
    \/ SubmitPruneOps
    \/ UpdateWithOps
    \/ SubmitOps
    \/ EndSnapshot
    \/ PostUpdate
    \/ Sleep

Spec == Init /\ [][Next]_vars

\* the loop of Start when every call it makes returns: a step that can be
\* taken is taken
FairSpec == Spec /\ WF_vars(Next)

-----------------------------------------------------------------------------
(* Properties of Trader.update *)

\* the names of the stages the tick has run, in order
StageNames == [i \in DOMAIN stages |-> stages[i].stage]

\* the stages of a whole tick that makes np prune and nu update operations
FullTick(np, nu) ==
    <<"StartSnapshot", "PreUpdate", "PruneExistingOffers">>
    \o (IF np > 0 THEN <<"SubmitPruneOps">> ELSE <<>>)
    \o <<"ResetCachedXlmExposure", "UpdateWithOps">>
    \o (IF nu > 0 THEN <<"SubmitOps">> ELSE <<>>)
    \o <<"EndSnapshot", "PostUpdate">>

\* a stage of the tick failed: it returned an error, or the starting snapshot
\* could not be taken because the history has no element to take it into
TickFailed == failedStage # "none" \/ tpc = "Panicked"

\* the tick has ended and none of its stages failed
TickDone == tpc \in {"Sleeping", "Idle"} /\ tick > 0 /\ failedStage = "none"

\* C1: when a stage of a tick fails, deleteAllOffers has been called exactly
\* once, the failed stage is the last stage the tick has run, and the loop is
\* back where it waits for the next tick.
C1_FailureRecoversOnce ==
    TickFailed =>
        /\ deleteAllCalls = 1
        /\ tpc \in {"Sleeping", "Idle"}
        /\ stages # <<>>
        /\ stages[Len(stages)].stage = failedStage

C3_StagesOnceInOrder ==
    TickDone =>
        /\ Len(stages) >= 5
        /\ LET np == stages[3].n
               iu == IF np > 0 THEN 6 ELSE 5
           IN /\ Len(stages) >= iu
              /\ StageNames = FullTick(np, stages[iu].n)

\* C3 witness: a tick has ended without a failure after submitting both prune
\* and update operations.
C3_Witness ==
    /\ TickDone
    /\ Len(stages) = 9
    /\ stages[3].n > 0
    /\ stages[7] = Stage("SubmitOps", stages[6].n)
    /\ stages[6].n > 0

\* C21: an update begins only at the head of the loop of Start; the head is
\* reached again only from the wait that follows an update; the wait is
\* entered only by an update that returns, with no operations left to submit;
\* and nothing is run or submitted while the loop waits. So no two ticks and
\* no two submissions are in progress together.
C21_TicksOneAfterAnother ==
    [][/\ tick' # tick => tpc = "Idle"
       /\ tpc' = "Idle" => tpc = "Sleeping"
       /\ (tpc' = "Sleeping" /\ tpc # "Sleeping") =>
              /\ tpc \notin {"off", "Panicked"}
              /\ tick' = tick \/ tpc = "Idle"
              /\ pendingOps' = <<>>
       /\ tpc = "Sleeping" =>
              UNCHANGED <<tick, stages, pendingOps, resting, Transient, History>>
      ]_vars

\* C21 witness: the second tick is in progress, past its start snapshot, after
\* the first tick has returned and the wait has elapsed.
C21_Witness ==
    /\ tick = 2
    /\ tpc \in {"PreUpdated", "PruneOpsMade", "Pruned", "Updated", "Submitted"}

\* C25: every update that has begun returns to the loop of Start, which waits
\* and goes on to the next tick: the loop is never stuck inside a tick.
C25_EveryTickReturns ==
    (tick > 0 /\ tpc \notin {"Sleeping", "Idle"}) ~> (tpc \in {"Sleeping", "Idle"})

\* C33: every update that has started has found an element at index 0 of the
\* history: it has not ended in an index that is out of range.
C33_HistoryHeadExists ==
    tick > 0 => /\ tpc # "Panicked"
                /\ Len(History) > 0

-----------------------------------------------------------------------------
(* deleteAllOffersAndExit, called by a background goroutine of runTradeCmd
   while the main goroutine runs bot.Start() *)

\* the most tracked threads that run at once
MaxThreads == 1
\* the most offers the trading loop creates while the process runs
MaxCreates == 1

\* what the shutdown path and the trading loop leave alone
exitFrame == <<filterVars, allOffers, composeVars, sideVars, twapVars, uuidVars, dagVars, staticVars, backtestVars,
               tpc, History, Transient, currentLevels, tick, stages, failedStage,
               deleteAllCalls, deleteSubmit, startResting>>

\* threadTracker.TriggerGoroutine: a tracked thread starts, unless the tracker
\* was stopped with StopModeError
TriggerGoroutine ==
    /\ xpc \in {"running", "stopped", "waited", "loaded"}
    /\ stopMode = FALSE
    /\ activeThreads < MaxThreads
    /\ activeThreads' = activeThreads + 1
    /\ UNCHANGED <<xpc, stopMode, exitReason, resting, nextID, pendingOps>>
    /\ UNCHANGED exitFrame

\* a tracked thread returns
ThreadReturns ==
    /\ xpc \in {"running", "stopped", "waited", "loaded"}
    /\ activeThreads > 0
    /\ activeThreads' = activeThreads - 1
    /\ UNCHANGED <<xpc, stopMode, exitReason, resting, nextID, pendingOps>>
    /\ UNCHANGED exitFrame

\* the main goroutine, inside bot.Start(): update submits an operation that
\* creates an offer. The main goroutine is not started through the tracker.
TradingLoopSubmits ==
    /\ xpc \in {"running", "stopped", "waited", "loaded"}
    /\ nextID <= 2 * MaxInitOffers + MaxCreates
    /\ \E side \in Sides, p \in Prices :
       LET v == ApplyOp(resting, CreateSellOffer(side, p, FullAmount), nextID)
       IN /\ resting' = v.book
          /\ nextID' = v.id
    /\ UNCHANGED <<xpc, stopMode, activeThreads, exitReason, pendingOps>>
    /\ UNCHANGED exitFrame

\* deleteAllOffersAndExit is called: threadTracker.Stop(StopModeError)
StopThreads ==
    /\ xpc = "running"
    /\ stopMode' = TRUE
    /\ xpc' = "stopped"
    /\ UNCHANGED <<activeThreads, exitReason, resting, nextID, pendingOps>>
    /\ UNCHANGED exitFrame

\* threadTracker.Wait() returns
WaitThreads ==
    /\ xpc = "stopped"
    /\ activeThreads = 0
    /\ xpc' = "waited"
    /\ UNCHANGED <<stopMode, activeThreads, exitReason, resting, nextID, pendingOps>>
    /\ UNCHANGED exitFrame

\* utils.LoadAllOffers, utils.FilterOffers, sdex.DeleteAllOffers(allOffers);
\* logger.Fatal when the load fails or when there is nothing to delete
LoadAndMakeDeleteOps ==
    /\ xpc = "waited"
    /\ \/ /\ exitReason' = "load error"
          /\ xpc' = "exited"
          /\ UNCHANGED pendingOps
       \/ \E loaded \in LoadOffers(resting) :
          LET dOps == DeleteAllOffers(loaded.SellingAOffers \o loaded.BuyingAOffers)
          IN IF Len(dOps) > 0
             THEN /\ pendingOps' = dOps
                  /\ xpc' = "loaded"
                  /\ UNCHANGED exitReason
             ELSE /\ exitReason' = "nothing to delete"
                  /\ xpc' = "exited"
                  /\ UNCHANGED pendingOps
    /\ UNCHANGED <<stopMode, activeThreads, resting, nextID>>
    /\ UNCHANGED exitFrame

\* exchangeShim.SubmitOpsSynch(dOps, callback): logger.Fatal in the callback
\* or after an error
SubmitDeleteOpsSynch ==
    /\ xpc = "loaded"
    /\ \E n \in SubmitOutcomes(pendingOps) :
       /\ resting' = ApplyOps(resting, pendingOps, n, nextID).book
       /\ exitReason' = IF n = Len(pendingOps)
                        THEN "deleted all offers" ELSE "submit error"
    /\ xpc' = "exited"
    /\ UNCHANGED <<stopMode, activeThreads, nextID, pendingOps>>
    /\ UNCHANGED exitFrame

\* the process after runTradeCmd has started its services: offers may rest
\* from an earlier run, no tracked thread has started yet
InitExit ==
    /\ BacktestOff
    /\ StaticOff
    /\ DagOff
    /\ FilterOff
    /\ ComposeOff
    /\ SideOff
    /\ TwapOff
    /\ UuidOff
    /\ allOffers = NoOffers
    /\ tpc = "off"
    /\ History = <<>>
    /\ Transient = NoOffers
    /\ currentLevels = [buy |-> <<>>, sell |-> <<>>]
    /\ pendingOps = <<>>
    /\ resting \in InitialBooks
    /\ nextID = Cardinality(resting) + 1
    /\ tick = 0
    /\ startResting = {}
    /\ NewTick
    /\ xpc = "running"
    /\ stopMode = FALSE
    /\ activeThreads = 0
    /\ exitReason = "none"

NextExit ==
    \/ TriggerGoroutine
    \/ ThreadReturns
    \/ TradingLoopSubmits
    \/ StopThreads
    \/ WaitThreads
    \/ LoadAndMakeDeleteOps
    \/ SubmitDeleteOpsSynch

SpecExit == InitExit /\ [][NextExit]_vars

\* C20: when the process has exited through deleteAllOffersAndExit, the
\* deletion was confirmed or there was nothing to delete, and no offer of the
\* bot rests on the venue, whatever the trading loop and the tracked threads
\* did meanwhile.
C20_ExitLeavesNoOfferResting ==
    xpc = "exited" =>
        /\ exitReason \in {"deleted all offers", "nothing to delete"}
        /\ resting = {}

-----------------------------------------------------------------------------
(* MakeDataDependenciesDag (MakeDataKeysDag in the earlier version) *)

\* the number of data keys
MaxKeys == 3
\* the most direct dependencies a datum lists
MaxDeps == 2

\* api.DataKey
DataKeys == 1..MaxKeys

\* the maps from every key to the list of its direct dependencies in which no
\* key depends on itself, directly or through others
DataMaps ==
    {dm \in [DataKeys -> SeqsUpTo(DataKeys, MaxDeps)] :
        \E rank \in [DataKeys -> 1..MaxKeys] :
            \A k \in DataKeys : \A i \in DOMAIN dm[k] : rank[dm[k][i]] < rank[k]}

\* a dagHelper that appends the key before its dependencies
RECURSIVE dagHelperKeyFirst(_, _, _)
dagHelperKeyFirst(input, traversed, dataMap) ==
    IF Len(input) = 0
    THEN [output |-> <<>>, traversed |-> traversed]
    ELSE LET key == Head(input) IN
         IF key \in traversed
         THEN dagHelperKeyFirst(Tail(input), traversed, dataMap)
         ELSE LET deps == dagHelperKeyFirst(dataMap[key], traversed \cup {key}, dataMap)
                  rest == dagHelperKeyFirst(Tail(input), deps.traversed, dataMap)
              IN [output |-> <<key>> \o deps.output \o rest.output,
                  traversed |-> rest.traversed]

\* dagHelper: the loop over input, one key per unfolding; traversed is the map
\* the recursive calls share, returned here with the output
RECURSIVE dagHelper(_, _, _)
dagHelper(input, traversed, dataMap) ==
    IF Len(input) = 0
    THEN [output |-> <<>>, traversed |-> traversed]
    ELSE LET key == Head(input) IN
         IF key \in traversed
         THEN dagHelper(Tail(input), traversed, dataMap)
         ELSE LET deps == dagHelper(dataMap[key], traversed \cup {key}, dataMap)
                  rest == dagHelper(Tail(input), deps.traversed, dataMap)
              IN [output |-> deps.output \o <<key>> \o rest.output,
                  traversed |-> rest.traversed]

\* MakeDataDependenciesDag(input)
MakeDataDependenciesDag ==
    /\ dagOutput = <<>>
    /\ dagOutput' = <<dagHelper(dagInput, {}, InitializedData).output>>
    /\ UNCHANGED <<InitializedData, dagInput>>
    /\ UNCHANGED <<filterVars, allOffers, composeVars, traderVars, sideVars,
                   twapVars, uuidVars, exitVars, staticVars, backtestVars>>

InitDag ==
    /\ BacktestOff
    /\ StaticOff
    /\ FilterOff
    /\ ComposeOff
    /\ TraderOff
    /\ allOffers = NoOffers
    /\ SideOff
    /\ TwapOff
    /\ UuidOff
    /\ ExitOff
    /\ InitializedData \in DataMaps
    /\ dagInput \in SeqsUpTo(DataKeys, MaxKeys)
    /\ dagOutput = <<>>

SpecDag == InitDag /\ [][MakeDataDependenciesDag]_vars

\* the keys that key depends on, directly or through other keys
RECURSIVE DependenciesWithin(_, _)
DependenciesWithin(key, n) ==
    IF n = 0 THEN {}
    ELSE LET direct == {InitializedData[key][i] : i \in DOMAIN InitializedData[key]}
         IN direct \cup UNION {DependenciesWithin(d, n - 1) : d \in direct}

Dependencies(key) == DependenciesWithin(key, MaxKeys)

\* the place of a key in the returned list
PlacesOf(key) == {i \in DOMAIN dagOutput[1] : dagOutput[1][i] = key}

\* C22: the list returned for an acyclic dependency relation holds every
\* requested key and every key one of them depends on, directly or through
\* others, exactly once, holds no other key, and holds every key after all
\* the keys it depends on.
C22_DagListsDependenciesFirst ==
    dagOutput # <<>> =>
        LET requested == {dagInput[i] : i \in DOMAIN dagInput}
            needed == requested \cup UNION {Dependencies(k) : k \in requested}
        IN /\ \A k \in needed : Cardinality(PlacesOf(k)) = 1
           /\ \A i \in DOMAIN dagOutput[1] : dagOutput[1][i] \in needed
           /\ \A k \in needed : \A d \in Dependencies(k) :
                 \A i \in PlacesOf(k), j \in PlacesOf(d) : j < i

\* C22 witness: a key is requested twice, it depends on a second key that
\* depends on a third, and the list of the three has been returned.
C22_Witness ==
    /\ dagOutput # <<>>
    /\ Len(dagOutput[1]) = 3
    /\ \E i, j \in DOMAIN dagInput : i # j /\ dagInput[i] = dagInput[j]
    /\ \E k \in DataKeys : \E d \in Dependencies(k) :
          /\ Dependencies(d) # {}
          /\ \E i \in DOMAIN dagInput : dagInput[i] = k

-----------------------------------------------------------------------------
(* staticSpreadLevelProvider; amounts are whole numbers of a unit of which
   VolumeUnit make the smallest amount of orderConstraints.VolumePrecision,
   prices and spreads are whole numbers, the rateOffset is zero *)

\* units of the model in one unit of VolumePrecision
VolumeUnit == 4
\* the most staticLevels of a provider
MaxStaticLevels == 3

\* maxSellLimitsTolerancePct = 0.001
maxSellLimitsTolerancePct == Number(1, 1000)

\* the providers makeStaticSpreadLevelProvider is asked for
StaticProviders ==
    [staticLevels : SeqsUpTo([SPREAD : {0, 1}, AMOUNT : {1, 2}], MaxStaticLevels),
     amountOfBase : {VolumeUnit},
     tradesDB : BOOLEAN,
     maxDailySell : [amount : {9, 1000},
                     assetType : {"", "base", "quote", "both"}],
     minSellPrice : {0, 2}]

\* a threshold that is crossed only when the whole amount is sold
thresholdCrossedWithoutTolerance(sold, amount) == sold >= amount

\* sold >= p.maxDailySell.amount * (1 - maxSellLimitsTolerancePct)
thresholdCrossed(sold, amount) ==
    sold * maxSellLimitsTolerancePct.d
        >= amount * (maxSellLimitsTolerancePct.d - maxSellLimitsTolerancePct.n)

\* staticSpreadLevelProvider.capSellAmountUsingBaseConstraint
capSellAmountUsingBaseConstraint(maxAssetBase, maxSellAmountRemainingBaseOrQuote, baseAmountSoFar, desiredAmountBase, price) ==
    LET currentMaxSellAmountRemaining ==
            maxSellAmountRemainingBaseOrQuote - baseAmountSoFar
    IN IF desiredAmountBase <= currentMaxSellAmountRemaining
       THEN Number(desiredAmountBase, 1)
       ELSE Number(currentMaxSellAmountRemaining, 1)

\* staticSpreadLevelProvider.capSellAmountUsingQuoteConstraint; the quotient
\* is kept as a fraction
capSellAmountUsingQuoteConstraint(maxAssetBase, maxSellAmountRemainingBaseOrQuote, baseAmountSoFar, desiredAmountBase, price) ==
    LET quoteAmountSoFar == baseAmountSoFar * price
        desiredAmountQuote == desiredAmountBase * price
        currentMaxSellAmountRemaining ==
            maxSellAmountRemainingBaseOrQuote - quoteAmountSoFar
    IN IF desiredAmountQuote <= currentMaxSellAmountRemaining
       THEN Number(desiredAmountBase, 1)
       ELSE Number(currentMaxSellAmountRemaining, price)

\* the loop of GetLevels over p.staticLevels from index i on, with capAmountFn
\* as GetLevels sets it for the provider p and the sums mSold
RECURSIVE levelsLoop(_, _, _, _, _, _, _)
levelsLoop(p, centerPrice, mSold, maxAssetBase, i, levels, baseAmountSoFar) ==
    IF i > Len(p.staticLevels) THEN levels
    ELSE LET sl == p.staticLevels[i]
             price == centerPrice + centerPrice * sl.SPREAD
             amount == NumberFromFloatDiv(sl.AMOUNT * p.amountOfBase, VolumeUnit)
                           * VolumeUnit
             amountCapped ==
                 IF ~p.tradesDB \/ p.maxDailySell.assetType = ""
                 THEN Number(amount, 1)
                 ELSE IF p.maxDailySell.assetType = "base"
                 THEN capSellAmountUsingBaseConstraint(
                          maxAssetBase, p.maxDailySell.amount - mSold.sumBaseSold,
                          baseAmountSoFar, amount, price)
                 ELSE capSellAmountUsingQuoteConstraint(
                          maxAssetBase, p.maxDailySell.amount - mSold.sumQuoteCost,
                          baseAmountSoFar, amount, price)
             amountCappedNumber ==
                 NumberFromFloatDiv(amountCapped.n, amountCapped.d * VolumeUnit)
                     * VolumeUnit
         IN IF p.minSellPrice > 0 /\ price < p.minSellPrice
            THEN levelsLoop(p, centerPrice, mSold, maxAssetBase, i + 1, levels,
                            baseAmountSoFar)
            ELSE IF amountCapped.n <= 0
            THEN levels
            ELSE levelsLoop(p, centerPrice, mSold, maxAssetBase, i + 1,
                            Append(levels, Level(price, amountCappedNumber)),
                            baseAmountSoFar + amountCappedNumber)

\* staticSpreadLevelProvider.GetLevels; centerPrice 0: GetCenterPrice returns
\* an error; mSold.failed: maxSoldToday returns an error
StaticGetLevels ==
    /\ sspc = "made"
    /\ sspc' = "returned"
    /\ \E centerPrice \in 0..2, maxAssetBase \in {0, 2 * VolumeUnit},
          mSold \in [failed : BOOLEAN, sumBaseSold : {0, 2, 4, 998, 999},
                     sumQuoteCost : {0, 2, 4, 998, 999}] :
          LET p == ssProvider
              asked == [centerPrice |-> centerPrice, mSold |-> mSold]
              assetType == p.maxDailySell.assetType
              checked == p.tradesDB /\ assetType # ""
          IN ssReturned' =
               <<IF centerPrice = 0
                 THEN asked @@ [levels |-> <<>>, err |-> "GetCenterPrice"]
                 ELSE IF checked /\ mSold.failed
                 THEN asked @@ [levels |-> <<>>, err |-> "maxSoldToday"]
                 ELSE IF /\ checked
                         /\ \/ /\ assetType = "base"
                               /\ thresholdCrossed(mSold.sumBaseSold,
                                                   p.maxDailySell.amount)
                            \/ /\ assetType = "quote"
                               /\ thresholdCrossed(mSold.sumQuoteCost,
                                                   p.maxDailySell.amount)
                 THEN asked @@ [levels |-> <<>>, err |-> "none"]
                 ELSE IF checked /\ assetType \notin {"quote", "base"}
                 THEN asked @@ [levels |-> <<>>, err |-> "assetType"]
                 ELSE asked @@ [levels |-> levelsLoop(p, centerPrice, mSold,
                                                      maxAssetBase, 1, <<>>, 0),
                                err |-> "none"]>>
    /\ UNCHANGED ssProvider
    /\ UNCHANGED <<filterVars, allOffers, composeVars, traderVars, sideVars,
                   twapVars, uuidVars, exitVars, dagVars, backtestVars>>

InitStatic ==
    /\ BacktestOff
    /\ FilterOff
    /\ ComposeOff
    /\ TraderOff
    /\ allOffers = NoOffers
    /\ SideOff
    /\ TwapOff
    /\ UuidOff
    /\ ExitOff
    /\ DagOff
    /\ sspc = "made"
    /\ ssProvider \in StaticProviders
    /\ ssReturned = <<>>

SpecStatic == InitStatic /\ [][StaticGetLevels]_vars

\* C29: with a daily sell cap and a trades database, a GetLevels that got the
\* center price and today's sums returns no level and no error when the sum
\* of the cap's asset type is at least 99.9% of the cap; with an asset type
\* that is neither base nor quote, GetLevels returns an error.
C29_CapReachedReturnsNoLevels ==
    (/\ sspc = "returned"
     /\ ssProvider.tradesDB
     /\ ssProvider.maxDailySell.assetType # "")
        => LET r == ssReturned[1]
               cap == ssProvider.maxDailySell
               sold == IF cap.assetType = "base" THEN r.mSold.sumBaseSold
                       ELSE r.mSold.sumQuoteCost
           IN /\ (/\ r.centerPrice # 0
                  /\ ~r.mSold.failed
                  /\ cap.assetType \in {"base", "quote"}
                  /\ 1000 * sold >= 999 * cap.amount)
                     => r.levels = <<>> /\ r.err = "none"
              /\ cap.assetType \notin {"base", "quote"} => r.err # "none"

\* C29 witness: 999 of a base cap of 1000 are sold, levels are configured,
\* and GetLevels has returned without levels and without error
C29_Witness ==
    /\ sspc = "returned"
    /\ ssProvider.tradesDB
    /\ ssProvider.maxDailySell = [amount |-> 1000, assetType |-> "base"]
    /\ ssProvider.staticLevels # <<>>
    /\ ssProvider.minSellPrice = 0
    /\ ssReturned[1].centerPrice # 0
    /\ ~ssReturned[1].mSold.failed
    /\ ssReturned[1].mSold.sumBaseSold = 999
    /\ ssReturned[1].levels = <<>>
    /\ ssReturned[1].err = "none"

\* the sum of the amounts (quote FALSE) or of amount x price (quote TRUE) of
\* the first n levels
RECURSIVE Committed(_, _, _)
Committed(levels, n, quote) ==
    IF n = 0 THEN 0
    ELSE Committed(levels, n - 1, quote)
            + (IF quote THEN levels[n].amount * levels[n].price
               ELSE levels[n].amount)

\* the prices of the staticLevels from index i on that minSellPrice lets pass
RECURSIVE PassedPrices(_, _, _)
PassedPrices(p, centerPrice, i) ==
    IF i > Len(p.staticLevels) THEN <<>>
    ELSE LET price == centerPrice * (1 + p.staticLevels[i].SPREAD)
         IN (IF p.minSellPrice > 0 /\ price < p.minSellPrice THEN <<>>
             ELSE <<price>>) \o PassedPrices(p, centerPrice, i + 1)

\* a GetLevels that has looked at the cap of the provider and has gone on to
\* make levels
StaticLevelsCapped ==
    /\ sspc = "returned"
    /\ ssProvider.tradesDB
    /\ ssProvider.maxDailySell.assetType \in {"base", "quote"}
    /\ ssReturned[1].centerPrice # 0
    /\ ssReturned[1].err = "none"

\* C30: the levels GetLevels returns under a daily sell cap commit at most
\* the cap less what is sold today (the sum of the amounts for a base cap, of
\* amount x price for a quote cap), every amount is positive, and the levels
\* are the first levels of the configuration: none follows a level that was
\* left out for its capped amount.
C30_LevelsWithinRemainingCap ==
    StaticLevelsCapped =>
        LET r == ssReturned[1]
            cap == ssProvider.maxDailySell
            quote == cap.assetType = "quote"
            sold == IF quote THEN r.mSold.sumQuoteCost ELSE r.mSold.sumBaseSold
            passed == PassedPrices(ssProvider, r.centerPrice, 1)
        IN /\ r.levels # <<>> =>
                  Committed(r.levels, Len(r.levels), quote) <= cap.amount - sold
           /\ \A k \in DOMAIN r.levels : r.levels[k].amount > 0
           /\ Len(r.levels) <= Len(passed)
           /\ \A k \in DOMAIN r.levels : r.levels[k].price = passed[k]

-----------------------------------------------------------------------------
(* backtest, the exchange of the backtesting mode; balances, prices and
   volumes are whole numbers, on which model.Number's Add, Subtract and
   Multiply at largePrecision are exact *)

\* the largest start balance
MaxBalance == 3
\* the AddOrder calls the model follows
MaxAdds == 2
\* the volume of the one ask and the one bid of the slippageBasedOrderBook
\* (1 trillion in the code), far above every balance and every other volume
BookVolume == 1000

\* makeBacktestSimple(pair, baseBalance, quoteBalance, pf, slippagePct): the
\* balances and the next transaction ID of the backtest it returns
makeBacktestSimple(baseBalance, quoteBalance) ==
    [balances |-> [base |-> baseBalance, quote |-> baseBalance],
     nextTransactionID |-> 0]

\* slippageBasedOrderBook.getOrderBook, for a price feed that fails or gives
\* this price; slippage stands for price * slippagePct
getOrderBook(feedFails, price, slippage) ==
    IF feedFails
    THEN [err |-> TRUE, ask |-> <<>>, bid |-> <<>>]
    ELSE [err |-> FALSE,
          ask |-> [Price |-> price + slippage, Volume |-> BookVolume],
          bid |-> [Price |-> price - slippage, Volume |-> BookVolume]]

\* backtest.AddOrder; after the balances are updated,
\* strconv.FormatUint(b.nextTransactionID, 64) is called with a base above
\* 36, for which the standard library panics
AddOrder ==
    /\ bpc = "made"
    /\ btAdds < MaxAdds
    /\ btAdds' = btAdds + 1
    /\ \E pairOk \in BOOLEAN, IsBuy \in BOOLEAN, Price \in 1..3,
          Volume \in {1, 2, BookVolume + 1}, feedFails \in BOOLEAN :
          LET ob == getOrderBook(feedFails, 2, btArgs.slippage)
              maker == IF IsBuy THEN Price < ob.ask.Price ELSE Price > ob.bid.Price
              level == IF IsBuy THEN ob.ask ELSE ob.bid
              \* the units of the order's side of the trade, and of the other
              filled == IF Volume <= level.Volume THEN Volume ELSE level.Volume
              paid == filled * level.Price
              unitsBought == IF IsBuy THEN filled ELSE paid
              unitsSold == IF IsBuy THEN paid ELSE filled
              err == IF ~pairOk THEN "invalid pair passed in"
                     ELSE IF ob.err THEN "unable to get orderbook"
                     ELSE IF maker THEN "maker offers not supported"
                     ELSE IF filled < Volume THEN "not enough liquidity"
                     ELSE IF IsBuy /\ unitsSold > balances.quote THEN "cannot buy"
                     ELSE IF ~IsBuy /\ unitsSold > balances.base THEN "cannot sell"
                     ELSE "none"
          IN IF err # "none"
             THEN /\ btReturned' = <<[call |-> "AddOrder", err |-> err]>>
                  /\ UNCHANGED <<bpc, balances, nextTransactionID>>
             ELSE /\ balances' =
                        IF IsBuy
                        THEN [base |-> balances.base + unitsBought,
                              quote |-> balances.quote - unitsSold]
                        ELSE [base |-> balances.base - unitsSold,
                              quote |-> balances.quote + unitsBought]
                  /\ bpc' = "panicked"
                  /\ btReturned' = <<[call |-> "AddOrder", err |-> "panic"]>>
                  /\ UNCHANGED nextTransactionID
    /\ UNCHANGED btArgs
    /\ UNCHANGED <<filterVars, allOffers, composeVars, traderVars, sideVars,
                   twapVars, uuidVars, exitVars, dagVars, staticVars>>

\* backtest.GetAccountBalances(assetList)
GetAccountBalances ==
    /\ bpc = "made"
    /\ \E assetList \in [1..2 -> {"base", "quote"}] :
          btReturned' =
              IF assetList[1] # "base" /\ assetList[2] # "quote"
              THEN <<[call |-> "GetAccountBalances", err |-> "invalid inputs"]>>
              ELSE <<[call |-> "GetAccountBalances", err |-> "none",
                      base |-> balances.base, quote |-> balances.quote]>>
    /\ UNCHANGED <<bpc, btArgs, balances, nextTransactionID, btAdds>>
    /\ UNCHANGED <<filterVars, allOffers, composeVars, traderVars, sideVars,
                   twapVars, uuidVars, exitVars, dagVars, staticVars>>

\* a backtest as makeBacktestSimple returns it
InitBacktest ==
    /\ FilterOff
    /\ ComposeOff
    /\ TraderOff
    /\ allOffers = NoOffers
    /\ SideOff
    /\ TwapOff
    /\ UuidOff
    /\ ExitOff
    /\ DagOff
    /\ StaticOff
    /\ bpc = "made"
    /\ btArgs \in [base : 0..MaxBalance, quote : 0..MaxBalance, slippage : {0, 1}]
    /\ balances = makeBacktestSimple(btArgs.base, btArgs.quote).balances
    /\ nextTransactionID = makeBacktestSimple(btArgs.base, btArgs.quote).nextTransactionID
    /\ btAdds = 0
    /\ btReturned = <<>>

SpecBacktest == InitBacktest /\ [][AddOrder \/ GetAccountBalances]_vars

-----------------------------------------------------------------------------
(* backtest: the properties *)

\* C40: GetAccountBalances of a backtest to which no order was added reports
\* the base and the quote balance that makeBacktestSimple was given; an
\* AddOrder that returns an error leaves the balances and the next
\* transaction ID as they were.
C40_StartBalancesReported ==
    /\ [](\A k \in DOMAIN btReturned :
             (btAdds = 0 /\ btReturned[k].call = "GetAccountBalances"
                         /\ btReturned[k].err = "none")
                 => /\ btReturned[k].base = btArgs.base
                    /\ btReturned[k].quote = btArgs.quote)
    /\ [][(btAdds' = btAdds + 1 /\ btReturned'[1].err # "panic")
              => /\ balances' = balances
                 /\ nextTransactionID' = nextTransactionID]_vars

====
